---- MODULE Spec2Model ----
(***************************************************************************)
(* PagePilot: the chat widget (ChatWidget.tsx), the content script that    *)
(* injects it and acts on the page, and the background service worker.     *)
(* Three contexts that only exchange messages:                             *)
(*   widget  --window.parent.postMessage-->  content script   (toAgent)    *)
(*   content script --contentWindow.postMessage--> widget     (toWidget)   *)
(*   widget / content script --chrome.runtime.sendMessage--> background    *)
(*                                                            (requests)   *)
(***************************************************************************)
EXTENDS Integers, Sequences, FiniteSets, TLC

(***************************************************************************)
(* Bounds of the model.                                                    *)
(***************************************************************************)
\* handleSend invocations that reach the model (chat inputs typed by the user)
MaxSends == 2
\* clicks on a Confirm / "Scroll & Highlight" button
MaxConfirms == 2
\* messages posted to the page window by something other than the widget
MaxPagePosts == 2
\* clicks on the New Chat button
MaxNewChats == 1
\* openChat calls that get past the guard
MaxOpens == 2
\* chrome.runtime messages delivered to the content script
MaxAgentRequests == 2
\* CLOSE_CHAT_WIDGET messages in flight
MaxClosePosts == 1
\* chrome.runtime messages delivered to the background besides those of
\* handleSend, New Chat and openChat
MaxBgRequests == 1
\* extractPageContext calls
MaxExtracts == 4
\* navigations of the host page
MaxPageVersions == 2
\* MutationObserver callbacks
MaxMutations == 4
\* const THRESHOLD = 200
THRESHOLD == 200

(***************************************************************************)
(* Values.                                                                 *)
(***************************************************************************)
Categories == {"form", "click", "highlight"}

\* widgetFrame === null; the frames openChat creates are numbered from 1
NoFrame == 0

\* A TargetDescriptor {id?, name?, text?}; "" is an absent property.
NoTarget == [id |-> "", name |-> "", text |-> ""]
TargetA == [id |-> "a", name |-> "", text |-> ""]
TargetB == [id |-> "", name |-> "", text |-> "b"]
Targets == {TargetA, TargetB}

\* The fields of a FillForm command: {id?, name?, label?, value}.
FieldsA == <<[id |-> "a", name |-> "", label |-> "", value |-> "v"]>>
FieldsB == <<[id |-> "", name |-> "", label |-> "L", value |-> "w"],
             [id |-> "", name |-> "n", label |-> "", value |-> "x"]>>
FieldLists == {FieldsA, FieldsB}

\* What a pending slot holds: {fields} for form, the target for the others.
\* One record shape serves the three categories; the property a category
\* does not have is left empty.
Command(fields, target) == [fields |-> fields, target |-> target]
FormCommand(fields) == Command(fields, NoTarget)
TargetCommand(target) == Command(<<>>, target)

\* The confirm property of a message posted to the content script:
\* true, false, not there at all, or another truthy value such as 1.
ConfirmValues == {"true", "false", "absent", "1"}

\* src/unnamed/part_006:406 and :504 test  !confirm
Truthy(v) == v \in {"true", "1"}


\* An action marker of one category inside an assistant reply:
\*   none - the reply has no marker of the category
\*   bad  - the marker is there and its payload is a JSON text cut short
\*   ok   - the payload is the JSON text of cmd (which may still lack every
\*          identifying property, or be an empty field list)
Marker(kind, cmd) == [kind |-> kind, cmd |-> cmd]
NoMarker == Marker("none", Command(<<>>, NoTarget))
BadMarker == Marker("bad", Command(<<>>, NoTarget))
OkForm(fields) == Marker("ok", FormCommand(fields))
OkTarget(target) == Marker("ok", TargetCommand(target))

\* The text of a chat message is a sequence of pieces:
\*   text   - words without any of the characters & < > " ' /
\*   open   - "<!--PAGEPILOT_ACTION:FILL_FORM:", "...:CLICK:", "...:HIGHLIGHT:"
\*            (s is the category)
\*   close  - "-->"
\*   json   - a JSON text; s is its shape (array, object, scalar) and cmd
\*            the value JSON.parse makes of it
\*   junk   - a text JSON.parse throws on; s tells how it begins and ends:
\*            object "{...}", cut "{..." (cut short), array "[..."
\*   script - "<script>...</script>"
\* esc: the piece went through sanitizeResponse, its & < > " ' / are entities.
Piece(t, s, cmd) == [t |-> t, s |-> s, cmd |-> cmd, esc |-> FALSE]
Word(s) == Piece("text", s, Command(<<>>, NoTarget))
Open(c) == Piece("open", c, Command(<<>>, NoTarget))
Close == Piece("close", "", Command(<<>>, NoTarget))
Json(shape, cmd) == Piece("json", shape, cmd)
Junk(shape) == Piece("junk", shape, Command(<<>>, NoTarget))
Script == Piece("script", "", Command(<<>>, NoTarget))

\* The content of a chat message that holds plain words only.
PlainContent(text) == <<Word(text)>>

\* The text of one marker.
MarkerText(c, m) ==
    CASE m.kind = "none" -> <<>>
      [] m.kind = "bad" -> <<Open(c), Junk(IF c = "form" THEN "array" ELSE "cut"), Close>>
      [] OTHER -> <<Open(c), Json(IF c = "form" THEN "array" ELSE "object", m.cmd), Close>>

\* Replies of the reply-generation capability: {content} as the connector
\* returns it, here the words "reply", then the markers; dangerous: a script
\* element comes first, so that containsDangerousCode(content) is true.
Reply(form, click, highlight, dangerous) ==
    (IF dangerous THEN <<Script>> ELSE <<>>) \o <<Word("reply")>>
    \o MarkerText("form", form) \o MarkerText("click", click)
    \o MarkerText("highlight", highlight)
Replies ==
    { Reply(NoMarker, OkTarget(TargetA), NoMarker, FALSE),
      Reply(OkForm(FieldsA), OkTarget(TargetB), OkTarget(TargetA), FALSE),
      Reply(OkForm(FieldsB), BadMarker, OkTarget(NoTarget), FALSE),
      Reply(OkForm(<<>>), OkTarget(TargetA), OkTarget(TargetB), TRUE) }

\* What the user types: a chat message, or a phrase of the local command
\* grammar that parseLocalCommand turns into a highlight target.
ChatInput == <<"input">>
LocalInput(target) ==
    IF target.id # "" THEN <<"highlight", " ", "id=", target.id>>
    ELSE <<"Highlight", " ", "\"", target.text, "\"">>
Inputs == {ChatInput} \cup {LocalInput(t) : t \in Targets}

\* A ChatMessage {role, content}.
ChatMessage(role, content) == [role |-> role, content |-> content]

\* Page sessions (tabs). sender.tab?.id is undefined for NoTab.
TabIds == {1, 2}
NoTab == 0
\* the tab the widget of this model lives in
WidgetTab == 1
\* another tab with a widget of its own
OtherTab == 2

VARIABLES
    \* ChatWidget state (useState)
    messages,        \* ChatMessage[]
    isLoading,
    pendingAction,   \* pendingFormAction / pendingClickAction /
                     \* pendingHighlightAction: <<>> is null, <<cmd>> a command
    uiSend,          \* where handleSend is: idle, awaiting the SEND_MESSAGE
                     \* reply, or awaiting loadChatHistory's reply
    uiClears,        \* New Chat clicks awaiting their CLEAR_CHAT_HISTORY reply
    \* window.postMessage channels
    toAgent,         \* widget (or page) -> content script 'message' listener
    toWidget,        \* content script -> widget 'message' listeners
    \* content script
    isWidgetOpen,
    widgetFrame,     \* the iframe element the global refers to, or NoFrame
    openCalls,       \* every call of openChat that got past its guard
    csRequests,      \* every chrome.runtime message delivered to the content
                     \* script, with the responses sent
    closeHandled,    \* history: closeChat has run and no open request was
                     \* made since
    \* the host page
    body,            \* document.body exists
    domFrames,       \* the iframes appended to the body
    domHandles,      \* the #pagepilot-resize-handle elements, document order
    marginRight,     \* document.body.style.marginRight
    pageVersion,     \* what extractContext returns changes with it
    pageLog,         \* the commands carried out against the page
    page,            \* the document the executor functions work on: its
                     \* elements, their values and inline styles, the events
                     \* dispatched, the timers set
    toggles,         \* background: the runs of the action.onClicked listener
    clickables,      \* what extractClickableElements returned, call by call
    pageSig,         \* document.body.innerText.length
    \* content script: change detector
    lastUrl,
    lastDomSignature,
    domChangeTimer,  \* TRUE: the debounce timer is set
    burst,           \* history of the mutations since the timer was last idle
    \* ChatWidget: page context
    context,         \* useState context: <<>> is null, <<v>> a context
    ctxListeners,    \* the handleMessage listeners of extractPageContext
                     \* calls still registered
    ctxCalls,        \* the number of extractPageContext calls made
    \* background service worker
    requests,        \* every chrome.runtime message delivered to it, with the
                     \* state of its handler run and the responses sent
    chatHistory,     \* chrome.storage.local[CHAT_HISTORY]: tab -> ChatMessage[]
    \* bookkeeping of the bounds
    budget

uiVars == <<messages, isLoading, pendingAction, uiSend, uiClears>>
chanVars == <<toAgent, toWidget>>
agentVars == <<isWidgetOpen, widgetFrame, openCalls, csRequests, closeHandled>>
domVars == <<body, domFrames, domHandles, marginRight>>
ctxVars == <<context, ctxListeners, ctxCalls, pageVersion>>
pageVars == <<pageLog>>
elemVars == <<page>>
sideVars == <<toggles, clickables>>
detVars == <<pageSig, lastUrl, lastDomSignature, domChangeTimer, burst>>
bgVars == <<requests, chatHistory>>
vars == <<uiVars, chanVars, agentVars, domVars, ctxVars, pageVars, elemVars, sideVars,
          detVars, bgVars, budget>>

(***************************************************************************)
(* Background service worker: chrome.runtime.onMessage listener.           *)
(***************************************************************************)
\* A response handed to sendResponse.
Answer(kind, reply, history) == [kind |-> kind, reply |-> reply, history |-> history]
NoReply == <<>>
\* {error: ...}
ErrorAnswer == Answer("error", NoReply, <<>>)
\* {tab}, {models}, {success: true}
PlainAnswer(kind) == Answer(kind, NoReply, <<>>)

EmptyStore == [t \in TabIds |-> <<>>]

\* A message delivered to the listener, with payload.context (<<>> when the
\* widget had none), the locals of its handler run (history, apiMessages,
\* historyMessages, the storage record saveChatHistory read, the connector's
\* response) and every sendResponse call made for it.
Request(type, tab) ==
    [type |-> type, tab |-> tab, pc |-> "delivered", answers |-> <<>>,
     context |-> <<>>, hist |-> <<>>, api |-> <<>>, toSave |-> <<>>,
     all |-> EmptyStore, response |-> NoReply]

\* the handler run is over and sendResponse was called with a
Finish(r, a) ==
    [r EXCEPT !.pc = "done", !.answers = Append(@, a), !.hist = <<>>,
              !.api = <<>>, !.toSave = <<>>, !.all = EmptyStore,
              !.response = NoReply]

UserMessage == ChatMessage("user", PlainContent("input"))
\* the system message handleSendMessage builds from formatContext(context)
SystemMessage == ChatMessage("system", PlainContent("context"))

\* apiMessages: the history, the system message if (includeContext &&
\* context), the user message
ApiMessages(hist, ctx) ==
    hist \o (IF ctx # <<>> THEN <<SystemMessage>> ELSE <<>>) \o <<UserMessage>>
\* historyMessages = [...history, userMessage]
HistoryMessages(hist) == hist \o <<UserMessage>>

\* the assistant message handleSendMessage saves: response.content as it came
SavedAssistant(r) ==
    ChatMessage("assistant", r)

TabScoped == {"SEND_MESSAGE", "GET_CHAT_HISTORY", "CLEAR_CHAT_HISTORY"}

\* handleMessage up to its first use of the stored history. available: the
\* connector's isAvailable / getAvailableModels went through.
BgDispatch(r, available) ==
    CASE r.type = "GET_CURRENT_TAB" -> Finish(r, PlainAnswer("tab"))
      [] r.type = "GET_AVAILABLE_MODELS" ->
            IF available THEN Finish(r, PlainAnswer("models"))
            ELSE Finish(r, ErrorAnswer)
      [] r.tab = NoTab -> Finish(r, ErrorAnswer)
      [] r.type = "SEND_MESSAGE" ->
            IF available
            THEN [r EXCEPT !.pc = "generating", !.hist = chatHistory[r.tab],
                           !.api = ApiMessages(chatHistory[r.tab], r.context),
                           !.toSave = HistoryMessages(chatHistory[r.tab])]
            ELSE Finish(r, ErrorAnswer)
      [] r.type = "GET_CHAT_HISTORY" ->
            Finish(r, Answer("history", NoReply, chatHistory[r.tab]))
      [] r.type = "CLEAR_CHAT_HISTORY" ->
            [r EXCEPT !.pc = "saveGet", !.toSave = <<>>]
      [] OTHER -> Finish(r, ErrorAnswer)

BgHandle(i) ==
    /\ i \in DOMAIN requests
    /\ requests[i].pc = "delivered"
    /\ \E available \in BOOLEAN :
         requests' = [requests EXCEPT ![i] = BgDispatch(requests[i], available)]
    /\ UNCHANGED <<chatHistory, uiVars, chanVars, agentVars, domVars,
                   ctxVars, pageVars, budget>>
    /\ UNCHANGED <<detVars, elemVars, sideVars>>

\* A catch block that saves historyMessages, the history with the user's
\* message, before it rethrows.
FailedStoreWithUser(store, r) == [store EXCEPT ![r.tab] = r.toSave]

\* The storage record after connector.sendMessage has thrown in the run r:
\* the catch block logs and rethrows, saveChatHistory is not reached.
FailedStore(store, r) == store

\* connector.sendMessage(request) returns or throws
BgGenerate(i) ==
    /\ i \in DOMAIN requests
    /\ requests[i].pc = "generating"
    /\ \/ /\ \E r \in Replies :
               requests' = [requests EXCEPT ![i] =
                   [@ EXCEPT !.pc = "saveGet", !.response = r,
                             !.toSave = Append(@, SavedAssistant(r))]]
          /\ chatHistory' = chatHistory
       \/ /\ requests' = [requests EXCEPT ![i] = Finish(@, ErrorAnswer)]
          /\ chatHistory' = FailedStore(chatHistory, requests[i])
    /\ UNCHANGED <<uiVars, chanVars, agentVars, domVars,
                   ctxVars, pageVars, budget>>
    /\ UNCHANGED <<detVars, elemVars, sideVars>>

\* saveChatHistory: chrome.storage.local.get
BgSaveGet(i) ==
    /\ i \in DOMAIN requests
    /\ requests[i].pc = "saveGet"
    /\ requests' = [requests EXCEPT ![i] =
                       [@ EXCEPT !.pc = "saveSet", !.all = chatHistory]]
    /\ UNCHANGED <<chatHistory, uiVars, chanVars, agentVars, domVars,
                   ctxVars, pageVars, budget>>
    /\ UNCHANGED <<detVars, elemVars, sideVars>>

\* saveChatHistory: history[tabId] = messages; chrome.storage.local.set
BgSaveSet(i) ==
    /\ i \in DOMAIN requests
    /\ requests[i].pc = "saveSet"
    /\ chatHistory' = [requests[i].all EXCEPT ![requests[i].tab] = requests[i].toSave]
    /\ requests' = [requests EXCEPT ![i] =
            Finish(@, IF requests[i].type = "SEND_MESSAGE"
                      THEN Answer("content", requests[i].response, <<>>)
                      ELSE PlainAnswer("success"))]
    /\ UNCHANGED <<uiVars, chanVars, agentVars, domVars, ctxVars, pageVars, budget>>
    /\ UNCHANGED <<detVars, elemVars, sideVars>>

(***************************************************************************)
(* ChatWidget: the pending-action store and handleSend.                    *)
(***************************************************************************)
\* A store that queues the new command behind the one already pending.
SetPendingQueued(p, c, cmd) == [p EXCEPT ![c] = Append(@, cmd)]

\* A store that merges the new command into the pending one, {...old, ...new}:
\* a property the new command does not set keeps the old value.
MergeText(old, new) == IF new = "" THEN old ELSE new
SetPendingMerged(p, c, cmd) ==
    IF p[c] = <<>> THEN [p EXCEPT ![c] = <<cmd>>]
    ELSE [p EXCEPT ![c] = <<[fields |-> IF cmd.fields = <<>> THEN p[c][1].fields
                                        ELSE cmd.fields,
                             target |-> [id |-> MergeText(p[c][1].target.id, cmd.target.id),
                                         name |-> MergeText(p[c][1].target.name, cmd.target.name),
                                         text |-> MergeText(p[c][1].target.text, cmd.target.text)]]>>]

\* A cancel that resets every slot.
ClearPendingAll(p, c) == [d \in Categories |-> <<>>]

\* setPendingFormAction / setPendingClickAction / setPendingHighlightAction
SetPending(p, c, cmd) == [p EXCEPT ![c] = <<cmd>>]
ClearPending(p, c) == [p EXCEPT ![c] = <<>>]

\* clickTarget.id || clickTarget.name || clickTarget.text
HasIdentifier(t) == t.id # "" \/ t.name # "" \/ t.text # ""

\* containsDangerousCode(content)
Dangerous(text) == \E i \in DOMAIN text : text[i] = Script

\* sanitizeResponse(content): & < > " ' / become entities. Its second
\* replace looks for "&lt;/script&gt;", which the escaped text cannot hold
\* (the "/" is an entity by then), so nothing is removed.
Sanitize(text) ==
    [i \in DOMAIN text |->
        IF text[i].t = "text" THEN text[i] ELSE [text[i] EXCEPT !.esc = TRUE]]

\* safeContent left as the connector returned it
SafeUnescaped(text) == text

\* safeContent before the marker blocks
Safe(text) == IF Dangerous(text) THEN Sanitize(text) ELSE text

Least(S) == CHOOSE n \in S : \A m \in S : n <= m

\* the first "-->" after position i, 0 if there is none
FirstClose(text, i) ==
    LET js == {j \in DOMAIN text : j > i /\ text[j] = Close}
    IN IF js = {} THEN 0 ELSE Least(js)

BeginsBrace(p) == ~p.esc /\ ((p.t = "json" /\ p.s = "object")
                              \/ (p.t = "junk" /\ p.s \in {"object", "cut"}))
EndsBrace(p) == ~p.esc /\ p.t \in {"json", "junk"} /\ p.s = "object"

\* Where the marker regex of category c, begun at the marker start i, ends;
\* 0 if it does not match there.
\*   FILL_FORM:  ([\s\S]*?)-->      CLICK, HIGHLIGHT:  ({[\s\S]*?})-->
MatchEnd(c, text, i) ==
    IF c = "form" THEN FirstClose(text, i)
    ELSE IF i + 1 \in DOMAIN text /\ BeginsBrace(text[i + 1])
         THEN LET js == {j \in DOMAIN text :
                            j > i + 1 /\ text[j] = Close /\ EndsBrace(text[j - 1])}
              IN IF js = {} THEN 0 ELSE Least(js)
         ELSE 0

\* safeContent.match(marker regex): the leftmost match; from is 0 if none
Match(c, text) ==
    LET is == {i \in DOMAIN text : text[i] = Open(c) /\ MatchEnd(c, text, i) # 0}
    IN IF is = {} THEN [from |-> 0, payload |-> <<>>]
       ELSE [from |-> Least(is),
             payload |-> SubSeq(text, Least(is) + 1, MatchEnd(c, text, Least(is)) - 1)]

\* JSON.parse(match[1]) returns: the payload is one JSON text
Parses(payload) == Len(payload) = 1 /\ payload[1].t = "json" /\ ~payload[1].esc

\* Is the parsed payload stored as pending?
\*   Array.isArray(fields) && fields.length > 0
\*   clickTarget.id || clickTarget.name || clickTarget.text
Accepts(c, v) ==
    IF c = "form" THEN v.s = "array" /\ Len(v.cmd.fields) > 0
    ELSE HasIdentifier(v.cmd.target)

\* Does handleSend store a command of category c for safeContent text?
Stores(c, text) ==
    /\ Match(c, text).from # 0
    /\ Parses(Match(c, text).payload)
    /\ Accepts(c, Match(c, text).payload[1])

\* A store that keeps the first field of the payload only.
StoredCommandFirstField(c, text) ==
    IF c = "form" THEN FormCommand(<<Head(Match(c, text).payload[1].cmd.fields)>>)
    ELSE TargetCommand(Match(c, text).payload[1].cmd.target)

\* the command it stores then
StoredCommand(c, text) ==
    IF c = "form" THEN FormCommand(Match(c, text).payload[1].cmd.fields)
    ELSE TargetCommand(Match(c, text).payload[1].cmd.target)

\* safeContent.replace(/<!--PAGEPILOT_ACTION:<C>:.*?-->/gs, '')
RECURSIVE Strip(_, _)
Strip(c, text) ==
    LET is == {i \in DOMAIN text : text[i] = Open(c) /\ FirstClose(text, i) # 0}
    IN IF is = {} THEN text
       ELSE SubSeq(text, 1, Least(is) - 1)
            \o Strip(c, SubSeq(text, FirstClose(text, Least(is)) + 1, Len(text)))

\* useState<...|null>(null) of the three slots
NoPending == [c \in Categories |-> <<>>]

\* One marker block of handleSend on st = [p |-> pending, s |-> safeContent]:
\* match, JSON.parse, store, strip; a throw of JSON.parse skips the rest.
Block(c, st) ==
    IF Match(c, st.s).from # 0 /\ Parses(Match(c, st.s).payload)
    THEN [p |-> IF Stores(c, st.s)
                THEN SetPending(st.p, c, StoredCommand(c, st.s)) ELSE st.p,
          s |-> Strip(c, st.s)]
    ELSE st

\* The three marker blocks inside one try: a throw of JSON.parse ends the
\* parsing of the reply.
BlocksOneTry(p, r) ==
    LET Throws(c, st) == Match(c, st.s).from # 0 /\ ~Parses(Match(c, st.s).payload)
        s0 == [p |-> p, s |-> Safe(r)]
        s1 == Block("form", s0)
        s2 == Block("click", s1)
    IN IF Throws("form", s0) THEN s0
       ELSE IF Throws("click", s1) THEN s1
       ELSE Block("highlight", s2)

\* The three marker blocks of handleSend, in their order.
Blocks(p, r) ==
    Block("highlight", Block("click", Block("form", [p |-> p, s |-> Safe(r)])))
ParseInto(p, r) == Blocks(p, r).p

\* safeContent as the block of category c finds it
Before(c, r) ==
    CASE c = "form" -> Safe(r)
      [] c = "click" -> Block("form", [p |-> NoPending, s |-> Safe(r)]).s
      [] OTHER -> Block("click", Block("form", [p |-> NoPending, s |-> Safe(r)])).s

\* safeContent of the assistant message handleSend appends
Displayed(r) == Blocks(NoPending, r).s

IdleSend == [pc |-> "idle", rid |-> 0]

(***************************************************************************)
(* ChatWidget: parseLocalCommand. A string is a sequence of tokens: each   *)
(* token is a run of characters the regular expressions cannot split, " "  *)
(* is a run of whitespace, DQ and SQ are the quote characters. Two word     *)
(* tokens next to each other are one word.                                 *)
(***************************************************************************)
DQ == "\""
SQ == "'"

RECURSIVE Join(_)
Join(s) == IF s = <<>> THEN "" ELSE Head(s) \o Join(Tail(s))

\* the /i flag, for the tokens that spell a keyword
Lower(t) == IF t = "Highlight" THEN "highlight" ELSE t

RECURSIVE DropWs(_)
DropWs(s) == IF s # <<>> /\ Head(s) = " " THEN DropWs(Tail(s)) ELSE s

RECURSIVE TrimRight(_)
TrimRight(s) ==
    IF s # <<>> /\ s[Len(s)] = " " THEN TrimRight(SubSeq(s, 1, Len(s) - 1)) ELSE s

\* String.prototype.trim
Trim(s) == TrimRight(DropWs(s))

\* ^\s*(highlight|scroll(?:\s+to)?)\s*:\s*  replaced by the lower-cased
\* group: the colon and the whitespace around it go, none is put back
Normalize(raw) ==
    LET s == DropWs(raw)
        kw == s # <<>> /\ Lower(s[1]) \in {"highlight", "scroll"}
        a == IF kw THEN Tail(s) ELSE <<>>           \* after the keyword
        b == DropWs(a)
        withTo == /\ kw /\ Lower(s[1]) = "scroll"
                  /\ a # <<>> /\ a[1] = " "
                  /\ b # <<>> /\ b[1] = "to"
                  /\ DropWs(Tail(b)) # <<>> /\ DropWs(Tail(b))[1] = ":"
        plain == kw /\ b # <<>> /\ b[1] = ":"
    IN  IF withTo
        THEN <<"scroll">> \o SubSeq(a, 1, Len(a) - Len(b)) \o <<"to">>
             \o DropWs(Tail(DropWs(Tail(b))))
        ELSE IF plain THEN <<Lower(s[1])>> \o DropWs(Tail(b))
        ELSE raw

\* what follows ^\s*highlight\s+ : <<TRUE, rest>> or <<FALSE, <<>>>>
AfterHighlight(n) ==
    LET s == DropWs(n) IN
    IF Len(s) >= 2 /\ Lower(s[1]) = "highlight" /\ s[2] = " "
    THEN <<TRUE, DropWs(Tail(s))>> ELSE <<FALSE, <<>>>>

\* what follows ^\s*scroll\s+to\s+
AfterScrollTo(n) ==
    LET s == DropWs(n)
        b == IF Len(s) >= 2 THEN DropWs(Tail(s)) ELSE <<>> IN
    IF /\ Len(s) >= 2 /\ Lower(s[1]) = "scroll" /\ s[2] = " "
       /\ Len(b) >= 2 /\ b[1] = "to" /\ b[2] = " "
    THEN <<TRUE, DropWs(Tail(b))>> ELSE <<FALSE, <<>>>>

\* what follows ^\s*scroll\s+
AfterScroll(n) ==
    LET s == DropWs(n) IN
    IF Len(s) >= 2 /\ Lower(s[1]) = "scroll" /\ s[2] = " "
    THEN <<TRUE, DropWs(Tail(s))>> ELSE <<FALSE, <<>>>>

\* q([\s\S]+?)q\s*$ on what follows the keyword
Quoted(a, q) ==
    LET r == TrimRight(a[2]) IN
    a[1] /\ Len(r) >= 3 /\ r[1] = q /\ r[Len(r)] = q
QuotedText(a) == LET r == TrimRight(a[2]) IN Join(Trim(SubSeq(r, 2, Len(r) - 1)))

\* ([\s\S]+?)\s*$ on what follows the keyword
Bare(a) == a[1] /\ TrimRight(a[2]) # <<>>
BareGroup(a) == TrimRight(a[2])

\* ^id=(\S+)$ and ^name=(\S+)$ on the group of the bare highlight
HasPrefix(g, p) ==
    /\ Len(g) >= 2
    /\ g[1] = p
    /\ \A i \in 2..Len(g) : g[i] # " "

TextTarget(t) == [id |-> "", name |-> "", text |-> t]

\* A bare highlight that takes its whole group as text.
BareTargetTextOnly(g) == TextTarget(Join(Trim(g)))

\* the target of the bare highlight: id=, name= or text
BareTarget(g) ==
    IF HasPrefix(g, "id=") THEN [id |-> Join(Tail(g)), name |-> "", text |-> ""]
    ELSE IF HasPrefix(g, "name=")
         THEN [id |-> "", name |-> Join(Tail(g)), text |-> ""]
         ELSE TextTarget(Join(Trim(g)))

Local(target) == [matched |-> TRUE, target |-> target]
NoLocal == [matched |-> FALSE, target |-> NoTarget]

\* parseLocalCommand(raw): the regular expressions in the order of the code:
\* with the optional "to" a scroll pattern is tried first with it, then
\* without. The two patterns after the bare highlight can never be reached.
ParseLocalCommand(raw) ==
    LET n == Normalize(raw)
        h == AfterHighlight(n)
        st == AfterScrollTo(n)
        s == AfterScroll(n)
    IN  IF Quoted(h, DQ) THEN Local(TextTarget(QuotedText(h)))
        ELSE IF Quoted(h, SQ) THEN Local(TextTarget(QuotedText(h)))
        ELSE IF Quoted(st, DQ) THEN Local(TextTarget(QuotedText(st)))
        ELSE IF Quoted(s, DQ) THEN Local(TextTarget(QuotedText(s)))
        ELSE IF Quoted(st, SQ) THEN Local(TextTarget(QuotedText(st)))
        ELSE IF Quoted(s, SQ) THEN Local(TextTarget(QuotedText(s)))
        ELSE IF Bare(st) THEN Local(TextTarget(Join(Trim(BareGroup(st)))))
        ELSE IF Bare(s) THEN Local(TextTarget(Join(Trim(BareGroup(s)))))
        ELSE IF Bare(h) THEN Local(BareTarget(BareGroup(h)))
        ELSE NoLocal

\* A handleSend that does not look at isLoading.
BusyNever(loading) == FALSE

\* the isLoading test of handleSend's first line
Busy(loading) == loading

\* handleSend up to its first await
HandleSendStart(input) ==
    /\ Trim(input) # <<>>
    /\ ~Busy(isLoading)
    /\ budget.sends < MaxSends
    /\ budget' = [budget EXCEPT !.sends = @ + 1]
    /\ messages' = Append(messages, ChatMessage("user", PlainContent(Join(input))))
    /\ IF ParseLocalCommand(Trim(input)).matched
       THEN /\ pendingAction' =
                 SetPending(pendingAction, "highlight",
                            TargetCommand(ParseLocalCommand(Trim(input)).target))
            /\ UNCHANGED <<isLoading, uiSend, requests>>
       ELSE /\ isLoading' = TRUE
            /\ requests' = Append(requests,
                  [Request("SEND_MESSAGE", WidgetTab) EXCEPT !.context = context])
            /\ uiSend' = [pc |-> "awaitReply", rid |-> Len(requests) + 1]
            /\ UNCHANGED pendingAction
    /\ UNCHANGED <<uiClears, chatHistory, chanVars, agentVars, domVars,
                   ctxVars, pageVars>>
    /\ UNCHANGED <<detVars, elemVars, sideVars>>

\* handleSend from the SEND_MESSAGE response to `await loadChatHistory()`
HandleSendReply ==
    /\ uiSend.pc = "awaitReply"
    /\ requests[uiSend.rid].pc = "done"
    /\ LET a == requests[uiSend.rid].answers[1] IN
       IF a.kind = "error"
       THEN /\ messages' = Append(messages,
                               ChatMessage("assistant", PlainContent("error")))
            /\ isLoading' = FALSE
            /\ uiSend' = IdleSend
            /\ UNCHANGED <<pendingAction, requests>>
       ELSE /\ pendingAction' = ParseInto(pendingAction, a.reply)
            /\ messages' = Append(messages,
                               ChatMessage("assistant", Displayed(a.reply)))
            /\ requests' = Append(requests, Request("GET_CHAT_HISTORY", WidgetTab))
            /\ uiSend' = [pc |-> "awaitHistory", rid |-> Len(requests) + 1]
            /\ UNCHANGED isLoading
    /\ UNCHANGED <<uiClears, chatHistory, chanVars, agentVars, domVars,
                   ctxVars, pageVars, budget>>
    /\ UNCHANGED <<detVars, elemVars, sideVars>>

\* loadChatHistory's response, then the finally block of handleSend
HandleSendLoaded ==
    /\ uiSend.pc = "awaitHistory"
    /\ requests[uiSend.rid].pc = "done"
    /\ LET a == requests[uiSend.rid].answers[1] IN
       messages' = IF a.kind = "history" THEN a.history ELSE messages
    /\ isLoading' = FALSE
    /\ uiSend' = IdleSend
    /\ UNCHANGED <<pendingAction, uiClears, bgVars, chanVars, agentVars,
                   domVars, ctxVars, pageVars, budget>>
    /\ UNCHANGED <<detVars, elemVars, sideVars>>

\* The request a Confirm button posts to window.parent. src is not a
\* property of the message: it records who posted it, which no handler reads.
ReqType(c) == CASE c = "form" -> "FILL_FORM"
                [] c = "click" -> "CLICK_ELEMENT"
                [] OTHER -> "HIGHLIGHT_ELEMENT"
ResType(c) == CASE c = "form" -> "FILL_FORM_RESULT"
                [] c = "click" -> "CLICK_RESULT"
                [] OTHER -> "HIGHLIGHT_RESULT"
ActionRequest(c, cmd, confirm, src) ==
    [type |-> ReqType(c), fields |-> cmd.fields, target |-> cmd.target,
     confirm |-> confirm, src |-> src]
ConfirmMessage(c, cmd) ==
    ActionRequest(c, cmd, IF c = "highlight" THEN "absent" ELSE "true", "widget")

\* onClick of Confirm (click, form) and of Scroll & Highlight
ConfirmClick(c) ==
    /\ pendingAction[c] # <<>>
    /\ budget.confirms < MaxConfirms
    /\ budget' = [budget EXCEPT !.confirms = @ + 1]
    /\ toAgent' = Append(toAgent, ConfirmMessage(c, pendingAction[c][1]))
    /\ UNCHANGED <<uiVars, toWidget, agentVars, domVars, ctxVars, pageVars, bgVars>>
    /\ UNCHANGED <<detVars, elemVars, sideVars>>

\* onClick of Cancel
CancelClick(c) ==
    /\ pendingAction[c] # <<>>
    /\ pendingAction' = ClearPending(pendingAction, c)
    /\ UNCHANGED <<messages, isLoading, uiSend, uiClears, chanVars,
                   agentVars, domVars, ctxVars,
                   pageVars, bgVars, budget>>
    /\ UNCHANGED <<detVars, elemVars, sideVars>>

\* onClick of New Chat, up to its await
NewChatClick ==
    /\ budget.newChats < MaxNewChats
    /\ budget' = [budget EXCEPT !.newChats = @ + 1]
    /\ requests' = Append(requests, Request("CLEAR_CHAT_HISTORY", WidgetTab))
    /\ uiClears' = uiClears \cup {Len(requests) + 1}
    /\ UNCHANGED <<messages, isLoading, pendingAction, uiSend, chatHistory,
                   chanVars, agentVars, domVars, ctxVars, pageVars>>
    /\ UNCHANGED <<detVars, elemVars, sideVars>>

\* onClick of New Chat, after the response
NewChatDone(i) ==
    /\ i \in uiClears
    /\ requests[i].pc = "done"
    /\ uiClears' = uiClears \ {i}
    /\ messages' = <<>>
    /\ pendingAction' = ClearPending(ClearPending(pendingAction, "form"), "click")
    /\ UNCHANGED <<isLoading, uiSend, chanVars, agentVars, domVars, ctxVars,
                   pageVars, bgVars, budget>>
    /\ UNCHANGED <<detVars, elemVars, sideVars>>

\* The result message of an executed command. cause is not a property of
\* the message: it records the src of the request that was executed.
ActionResult(c, success, cause) ==
    [type |-> ResType(c), success |-> success, cause |-> cause]

\* The result message posted for the outcome o of an executor function:
\* CLICK_RESULT and HIGHLIGHT_RESULT carry the error, FILL_FORM_RESULT the
\* two counts.
ResultMessage(c, o, cause) ==
    [type |-> ResType(c), success |-> o.success, cause |-> cause,
     error |-> o.error, filled |-> o.filled, failed |-> o.failed]

\* The text of the message the widget shows for a result: one wording per
\* category and outcome.
ResultText(c, success) ==
    CASE c = "form" -> IF success THEN "form filled" ELSE "fill failed"
      [] c = "click" -> IF success THEN "clicked" ELSE "click failed"
      [] OTHER -> IF success THEN "highlighted" ELSE "highlight failed"
ResultTexts(c) == {ResultText(c, TRUE), ResultText(c, FALSE)}

\* A result handler that clears the slot in its success branch only.
AfterResultSuccessOnly(p, c, success) == IF success THEN ClearPending(p, c) ELSE p

\* The pending slots after the result message of category c: the
\* setPending...Action(null) that follows the if/else on success.
AfterResult(p, c, success) == ClearPending(p, c)

\* handleMessage of the widget: FILL_FORM_RESULT, CLICK_RESULT, HIGHLIGHT_RESULT
WidgetOnResult(c) ==
    /\ toWidget # <<>>
    /\ Head(toWidget).type = ResType(c)
    /\ toWidget' = Tail(toWidget)
    /\ messages' = Append(messages, ChatMessage("assistant",
            PlainContent(ResultText(c, Head(toWidget).success))))
    /\ pendingAction' = AfterResult(pendingAction, c, Head(toWidget).success)
    /\ UNCHANGED <<isLoading, uiSend, uiClears, toAgent, agentVars, domVars,
                   ctxVars, pageVars,
                   bgVars, budget>>
    /\ UNCHANGED <<detVars, elemVars, sideVars>>

\* a message type no listener of the widget has a branch for
WidgetOnOther ==
    /\ toWidget # <<>>
    /\ Head(toWidget).type = "FILL_FORM_CONFIRM"
    /\ toWidget' = Tail(toWidget)
    /\ UNCHANGED <<uiVars, toAgent, agentVars, domVars, ctxVars, pageVars,
                   bgVars, budget>>
    /\ UNCHANGED <<detVars, elemVars, sideVars>>

(***************************************************************************)
(* The host document and the executor functions of the content script.     *)
(***************************************************************************)
\* An element of the document, a child of the body: its tag, the type of an
\* input, its id and name attributes ("" when absent), its textContent, the
\* for attribute of a label, the placeholder of a control, whether it is
\* displayed (neither display: none nor visibility: hidden), whether it
\* stands inside a form; its computed opacity is "1" and it has no href
\* unless said otherwise.
Element(tag, type, id, name, text, for, placeholder, visible, inForm) ==
    [tag |-> tag, type |-> type, id |-> id, name |-> name, text |-> text,
     for |-> for, placeholder |-> placeholder, visible |-> visible,
     inForm |-> inForm, opacity |-> "1", href |-> ""]

\* element.style: outline, boxShadow, and the list of the transitions
NoStyle == [outline |-> "", boxShadow |-> "", transition |-> <<>>]
Highlighted == [outline |-> "3px solid #f59e0b",
                boxShadow |-> "0 0 0 4px rgba(245, 158, 11, 0.35)"]

\* A document with the elements els in document order, no value typed, no
\* inline style, nothing dispatched, no timer set; calls counts the runs of
\* clickElement, fillFormFields and findElementForTarget.
PageOf(els) ==
    [known |-> TRUE, els |-> els,
     value |-> [i \in DOMAIN els |-> ""],
     style |-> [i \in DOMAIN els |-> NoStyle],
     events |-> <<>>, timers |-> <<>>, calls |-> 0]

\* The document is left open: an executor function may find its elements or
\* not.
UnknownPage ==
    [known |-> FALSE, els |-> <<>>, value |-> <<>>, style |-> <<>>,
     events |-> <<>>, timers |-> <<>>, calls |-> 0]

\* String.prototype.toLowerCase, on the texts of the documents and commands
LowerCase(s) ==
    CASE s = "B" -> "b"
      [] s = "Ab" -> "ab"
      [] s = "L" -> "l"
      [] OTHER -> s

\* String.prototype.includes, on the same texts
Includes(hay, needle) ==
    \/ needle = ""
    \/ hay = needle
    \/ <<hay, needle>> \in {<<"ab", "b">>, <<"ab", "a">>}

\* text === lc || text.includes(lc), both lower-cased
TextMatches(text, wanted) ==
    /\ text # ""
    /\ \/ LowerCase(text) = LowerCase(wanted)
       \/ Includes(LowerCase(text), LowerCase(wanted))

\* the first element of a NodeList, 0 for null
First(S) == IF S = {} THEN 0 ELSE Least(S)

\* document.getElementById(id)
GetElementById(els, id) == First({i \in DOMAIN els : els[i].id = id})

\* document.querySelector('[name="..."]'), then the same for buttons and
\* inputs only
QueryName(els, name) ==
    IF First({i \in DOMAIN els : els[i].name = name}) # 0
    THEN First({i \in DOMAIN els : els[i].name = name})
    ELSE First({i \in DOMAIN els :
                  els[i].name = name /\ els[i].tag \in {"button", "input"}})

\* 'button, a, input[type="button"], input[type="submit"], [role="button"]'
Clickable(e) ==
    \/ e.tag \in {"button", "a"}
    \/ e.tag = "input" /\ e.type \in {"button", "submit"}

\* 'input, textarea, select'
Control(e) == e.tag \in {"input", "textarea", "select"}

\* the first clickable whose trimmed text is or includes the wanted text
ClickableByText(els, text) ==
    First({i \in DOMAIN els : Clickable(els[i]) /\ TextMatches(els[i].text, text)})

\* A resolution that looks at the text before the id and the name.
ResolveClickTextFirst(els, t) ==
    IF t.text # "" /\ ClickableByText(els, t.text) # 0
    THEN ClickableByText(els, t.text)
    ELSE IF t.id # "" /\ GetElementById(els, t.id) # 0
         THEN GetElementById(els, t.id)
         ELSE IF t.name # "" THEN QueryName(els, t.name) ELSE 0

\* The element clickElement finds for target t, 0 if it finds none: by id,
\* else by name, else by text (the exact-match pass that follows the loop
\* looks through the same clickables).
ResolveClick(els, t) ==
    LET byId == IF t.id # "" THEN GetElementById(els, t.id) ELSE 0
        byName == IF byId = 0 /\ t.name # "" THEN QueryName(els, t.name) ELSE byId
        byText == IF byName = 0 /\ t.text # ""
                  THEN IF ClickableByText(els, t.text) # 0
                       THEN ClickableByText(els, t.text)
                       ELSE First({i \in DOMAIN els :
                                      /\ Clickable(els[i])
                                      /\ els[i].text # ""
                                      /\ els[i].text = t.text})
                  ELSE byName
    IN byText

\* A timer set with setTimeout: the click of clickElement (200 ms), the
\* submit event that follows it (100 ms), the style reset of
\* highlightElement (3000 ms) with the outline and box shadow it captured.
Timer(kind, el, outline, boxShadow) ==
    [kind |-> kind, el |-> el, outline |-> outline, boxShadow |-> boxShadow]

\* What an executor function returns, and the document it leaves.
Outcome(success, error, filled, failed, pg) ==
    [success |-> success, error |-> error, filled |-> filled,
     failed |-> failed, page |-> pg]

\* A clickElement that does not look at the computed style.
ClickElementUnchecked(pg, t) ==
    IF ResolveClick(pg.els, t) = 0
    THEN Outcome(FALSE, "not found", 0, 0, [pg EXCEPT !.calls = @ + 1])
    ELSE Outcome(TRUE, "", 0, 0,
                 [pg EXCEPT !.calls = @ + 1,
                            !.timers = Append(@, Timer("click", ResolveClick(pg.els, t), "", ""))])

\* clickElement(target)
ClickElement(pg, t) ==
    IF ResolveClick(pg.els, t) = 0
    THEN Outcome(FALSE, "not found", 0, 0, [pg EXCEPT !.calls = @ + 1])
    ELSE IF ~pg.els[ResolveClick(pg.els, t)].visible
    THEN Outcome(FALSE, "not visible", 0, 0, [pg EXCEPT !.calls = @ + 1])
    ELSE Outcome(TRUE, "", 0, 0,
                 [pg EXCEPT !.calls = @ + 1,
                            !.timers = Append(@, Timer("click", ResolveClick(pg.els, t), "", ""))])

\* an event dispatched on an element (submit: on the form around it)
Event(type, el) == [type |-> type, el |-> el]

\* The text stages of findElementForTarget, all elements being children of
\* the body and the head holding no text:
\*   1 the clickables by text
\*   2 the labels by text, through their for attribute (no label wraps a
\*     control here)
\*   3 the controls by placeholder
\*   4 the controls by the text of their ancestors: the body's text is the
\*     text of all its elements
FindByText(els, text) ==
    LET labels == {i \in DOMAIN els :
                     /\ els[i].tag = "label"
                     /\ TextMatches(els[i].text, text)
                     /\ els[i].for # ""
                     /\ GetElementById(els, els[i].for) # 0}
        hinted == {i \in DOMAIN els :
                     Control(els[i]) /\ TextMatches(els[i].placeholder, text)}
        inside == {i \in DOMAIN els :
                     /\ Control(els[i])
                     /\ \E j \in DOMAIN els : TextMatches(els[j].text, text)}
    IN IF ClickableByText(els, text) # 0 THEN ClickableByText(els, text)
       ELSE IF labels # {} THEN GetElementById(els, els[Least(labels)].for)
       ELSE IF hinted # {} THEN Least(hinted)
       ELSE First(inside)

\* findElementForTarget(target)
FindElementForTarget(els, t) ==
    LET byId == IF t.id # "" THEN GetElementById(els, t.id) ELSE 0
        byName == IF byId = 0 /\ t.name # "" THEN QueryName(els, t.name) ELSE byId
    IN IF byName = 0 /\ t.text # "" THEN FindByText(els, t.text) ELSE byName

\* highlightElement(element)
HighlightElement(pg, el) ==
    [pg EXCEPT !.style[el] = [outline |-> Highlighted.outline,
                              boxShadow |-> Highlighted.boxShadow,
                              transition |-> Append(@.transition,
                                    "outline 0.2s ease, box-shadow 0.2s ease")],
               !.timers = Append(@, Timer("highlight", el, pg.style[el].outline,
                                          pg.style[el].boxShadow))]

\* the HIGHLIGHT_ELEMENT branch: findElementForTarget, then highlightElement
HighlightTarget(pg, t) ==
    IF FindElementForTarget(pg.els, t) = 0
    THEN Outcome(FALSE, "not found", 0, 0, [pg EXCEPT !.calls = @ + 1])
    ELSE Outcome(TRUE, "", 0, 0,
                 HighlightElement([pg EXCEPT !.calls = @ + 1],
                                  FindElementForTarget(pg.els, t)))

\* The element fillFormFields finds for a field, 0 if none: by id, else by
\* name (the documents here hold no radio input), else through the first
\* label whose text includes the field's label: the element its for
\* attribute names, else the first control under the label's parent, which
\* is the body.
ResolveField(els, f) ==
    LET byId == IF f.id # "" THEN GetElementById(els, f.id) ELSE 0
        byName == IF byId = 0 /\ f.name # ""
                  THEN First({i \in DOMAIN els : els[i].name = f.name}) ELSE byId
        Candidate(l) ==
            IF els[l].for # "" /\ GetElementById(els, els[l].for) # 0
            THEN GetElementById(els, els[l].for)
            ELSE First({i \in DOMAIN els : Control(els[i])})
        labels == {l \in DOMAIN els :
                     /\ els[l].tag = "label"
                     /\ Includes(LowerCase(els[l].text), LowerCase(f.label))
                     /\ Candidate(l) # 0}
    IN IF byName = 0 /\ f.label # ""
       THEN IF labels = {} THEN 0 ELSE Candidate(Least(labels))
       ELSE byName

\* !isNaN(Number(value))
Numeric(v) == v \in {"", "7"}

\* The option a select has for a value: the selects here hold the one
\* option <option value="7">7</option>.
HasOption(v) == v = "7" \/ Includes("7", LowerCase(v))

\* the write of one resolved field: what the element's value becomes and the
\* events dispatched, <<>> when the branch counts the field as failed or
\* (no input, textarea or select) does not count it at all
Written(e, f) ==
    CASE e.tag = "input" /\ e.type = "checkbox" -> <<"change", "input">>
      [] e.tag = "input" /\ e.type \in {"number", "range"} ->
            IF Numeric(f.value) THEN <<"input", "change">> ELSE <<>>
      [] e.tag = "input" -> <<"input", "change">>
      [] e.tag = "textarea" -> <<"input", "change">>
      [] e.tag = "select" -> IF HasOption(f.value) THEN <<"change">> ELSE <<>>
      [] OTHER -> <<>>

\* is the field counted as failed once its element e is found?
CountsFailed(e, f) ==
    \/ e.tag = "input" /\ e.type \in {"number", "range"} /\ ~Numeric(f.value)
    \/ e.tag = "select" /\ ~HasOption(f.value)

\* the value a checkbox, a select (its option's value) or another control
\* takes
NewValue(e, f) ==
    IF e.tag = "input" /\ e.type = "checkbox"
    THEN IF f.value \in {"true", "yes", "1"} \/ LowerCase(f.value) = "checked"
         THEN "checked" ELSE ""
    ELSE IF e.tag = "select" THEN "7" ELSE f.value

\* A forEach body that stops counting at the first field that fails.
FillOneStopping(st, f) ==
    IF st.failed > 0 THEN st
    ELSE LET el == ResolveField(st.page.els, f) IN
         IF el = 0 THEN [st EXCEPT !.failed = @ + 1]
         ELSE IF Written(st.page.els[el], f) # <<>>
         THEN [st EXCEPT !.filled = @ + 1,
                         !.page.value[el] = NewValue(st.page.els[el], f)]
         ELSE IF CountsFailed(st.page.els[el], f)
         THEN [st EXCEPT !.failed = @ + 1] ELSE st

\* the body of fields.forEach in fillFormFields, on st = [page, filled, failed]
FillOne(st, f) ==
    LET el == ResolveField(st.page.els, f) IN
    IF el = 0 THEN [st EXCEPT !.failed = @ + 1]
    ELSE IF Written(st.page.els[el], f) # <<>>
    THEN [st EXCEPT !.filled = @ + 1,
                    !.page.value[el] = NewValue(st.page.els[el], f),
                    !.page.events = @ \o [k \in DOMAIN Written(st.page.els[el], f) |->
                                             Event(Written(st.page.els[el], f)[k], el)]]
    ELSE IF CountsFailed(st.page.els[el], f)
    THEN [st EXCEPT !.failed = @ + 1]
    ELSE st

RECURSIVE FillAll(_, _)
FillAll(st, fields) ==
    IF fields = <<>> THEN st ELSE FillAll(FillOne(st, Head(fields)), Tail(fields))

\* fillFormFields(fields)
FillFormFields(pg, fields) ==
    LET st == FillAll([page |-> [pg EXCEPT !.calls = @ + 1], filled |-> 0,
                       failed |-> 0], fields)
    IN Outcome(st.filled > 0, "", st.filled, st.failed, st.page)

\* What a run of an executor function for category c may return: computed
\* on a known document; success or failure on a document left open.
Outcomes(c, cmd) ==
    IF page.known
    THEN { CASE c = "click" -> ClickElement(page, cmd.target)
             [] c = "highlight" -> HighlightTarget(page, cmd.target)
             [] OTHER -> FillFormFields(page, cmd.fields) }
    ELSE { Outcome(ok, IF ok \/ c = "form" THEN "" ELSE "not found",
                   IF ok /\ c = "form" THEN 1 ELSE 0,
                   IF ~ok /\ c = "form" THEN 1 ELSE 0, page) : ok \in BOOLEAN }

(***************************************************************************)
(* Content script: the window 'message' listener, action requests.         *)
(***************************************************************************)
\* One command carried out against the page: clickElement, fillFormFields or
\* findElementForTarget + highlightElement ran for the request; ok: it found
\* its element(s) and acted on them.
Execution(c, m, ok) ==
    [category |-> c, fields |-> m.fields, target |-> m.target,
     confirm |-> m.confirm, src |-> m.src, ok |-> ok]

\* widgetFrame?.contentWindow.postMessage(msg)
PostToWidget(q, msg) == IF widgetFrame # NoFrame THEN Append(q, msg) ELSE q

CommandsOf(c) ==
    IF c = "form" THEN {FormCommand(f) : f \in FieldLists}
    ELSE {TargetCommand(t) : t \in Targets}

\* Any script of the host page, or another frame, posts to the page window:
\* the listener does not look at the event's source or origin.
PagePost ==
    /\ budget.pagePosts < MaxPagePosts
    /\ budget' = [budget EXCEPT !.pagePosts = @ + 1]
    /\ \E c \in Categories : \E cmd \in CommandsOf(c) : \E confirm \in ConfirmValues :
         toAgent' = Append(toAgent, ActionRequest(c, cmd, confirm, "page"))
    /\ UNCHANGED <<uiVars, toWidget, agentVars, domVars, ctxVars, pageVars, bgVars>>
    /\ UNCHANGED <<detVars, elemVars, sideVars>>

\* event.data.type === 'CLICK_ELEMENT'
AgentOnClick ==
    /\ toAgent # <<>>
    /\ Head(toAgent).type = "CLICK_ELEMENT"
    /\ toAgent' = Tail(toAgent)
    /\ LET m == Head(toAgent) IN
       IF ~Truthy(m.confirm)
       THEN UNCHANGED <<toWidget, pageLog, page>>
       ELSE \E o \in Outcomes("click", m) :
              /\ page' = o.page
              /\ pageLog' = pageLog \cup {Execution("click", m, o.success)}
              /\ toWidget' = PostToWidget(toWidget, ResultMessage("click", o, m.src))
    /\ UNCHANGED <<uiVars, agentVars, domVars, ctxVars, bgVars, budget>>
    /\ UNCHANGED <<detVars, sideVars>>

\* event.data.type === 'HIGHLIGHT_ELEMENT'
AgentOnHighlight ==
    /\ toAgent # <<>>
    /\ Head(toAgent).type = "HIGHLIGHT_ELEMENT"
    /\ toAgent' = Tail(toAgent)
    /\ LET m == Head(toAgent) IN
       \E o \in Outcomes("highlight", m) :
         /\ page' = o.page
         /\ pageLog' = pageLog \cup {Execution("highlight", m, o.success)}
         /\ toWidget' = PostToWidget(toWidget, ResultMessage("highlight", o, m.src))
    /\ UNCHANGED <<uiVars, agentVars, domVars, ctxVars, bgVars, budget>>
    /\ UNCHANGED <<detVars, sideVars>>

\* event.data.type === 'FILL_FORM'
AgentOnFillForm ==
    /\ toAgent # <<>>
    /\ Head(toAgent).type = "FILL_FORM"
    /\ toAgent' = Tail(toAgent)
    /\ LET m == Head(toAgent) IN
       IF ~Truthy(m.confirm)
       THEN /\ toWidget' = PostToWidget(toWidget,
                  [type |-> "FILL_FORM_CONFIRM", success |-> FALSE, cause |-> m.src])
            /\ UNCHANGED <<pageLog, page>>
       ELSE \E o \in Outcomes("form", m) :
              /\ page' = o.page
              /\ pageLog' = pageLog \cup {Execution("form", m, o.success)}
              /\ toWidget' = PostToWidget(toWidget, ResultMessage("form", o, m.src))
    /\ UNCHANGED <<uiVars, agentVars, domVars, ctxVars, bgVars, budget>>
    /\ UNCHANGED <<detVars, sideVars>>

(***************************************************************************)
(* Content script: opening and closing the widget.                         *)
(***************************************************************************)
\* A call of openChat that got past its guard. req: the runtime message it
\* serves (0 for the keyboard shortcut); rid: the GET_CURRENT_TAB request it
\* sent; pc: awaitTab, awaitBody, done (appended) or failed (the catch
\* block ran). The iframe and the resize handle call k creates are named k.
OpenCall(req, rid, pc) == [req |-> req, rid |-> rid, pc |-> pc]

\* The runtime messages the content script gets; PING is any type the
\* switch does not know.
CsTypes == {"TOGGLE_CHAT", "OPEN_CHAT", "CLOSE_CHAT", "PING"}
CsRequest(type) == [type |-> type, pc |-> "delivered", answers |-> <<>>]

\* handleMessage().then(sendResponse) of request req; 0 is no request
CsAnswer(q, req, kind) ==
    IF req = 0 THEN q
    ELSE [q EXCEPT ![req] = [@ EXCEPT !.pc = "done", !.answers = Append(@, kind)]]

\* closeChat. Without a body the margin reset throws a TypeError and the
\* flag keeps its value.
CloseChat ==
    /\ domFrames' = domFrames \ {widgetFrame}
    /\ widgetFrame' = NoFrame
    /\ domHandles' = IF domHandles = <<>> THEN <<>> ELSE Tail(domHandles)
    /\ IF body
       THEN marginRight' = "" /\ isWidgetOpen' = FALSE
       ELSE UNCHANGED <<marginRight, isWidgetOpen>>
    /\ closeHandled' = TRUE
    /\ UNCHANGED <<openCalls, requests>>

\* what the runtime listener answers after closeChat
CloseAnswer == IF body THEN "success" ELSE "error"

\* openChat up to its first await, for the request req already in q
OpenChat(q, req) ==
    /\ closeHandled' = FALSE
    /\ IF isWidgetOpen /\ widgetFrame # NoFrame
       THEN /\ csRequests' = CsAnswer(q, req, "success")
            /\ UNCHANGED <<openCalls, requests>>
       ELSE /\ Len(openCalls) < MaxOpens
            /\ requests' = Append(requests, Request("GET_CURRENT_TAB", WidgetTab))
            /\ openCalls' = Append(openCalls,
                                   OpenCall(req, Len(requests) + 1, "awaitTab"))
            /\ csRequests' = q
    /\ UNCHANGED <<isWidgetOpen, widgetFrame, domVars>>

\* toggleChat
ToggleChat(q, req) ==
    IF isWidgetOpen
    THEN CloseChat /\ csRequests' = CsAnswer(q, req, CloseAnswer) /\ UNCHANGED body
    ELSE OpenChat(q, req)

\* the rest of the state openChat and closeChat leave alone
lifeRest == <<uiVars, ctxVars, pageVars, chatHistory, budget>>

\* chrome.runtime.onMessage: case 'TOGGLE_CHAT'
AgentOnToggleChat ==
    /\ Len(csRequests) < MaxAgentRequests
    /\ ToggleChat(Append(csRequests, CsRequest("TOGGLE_CHAT")), Len(csRequests) + 1)
    /\ UNCHANGED <<lifeRest, chanVars>>
    /\ UNCHANGED <<detVars, elemVars, sideVars>>

\* chrome.runtime.onMessage: case 'OPEN_CHAT'
AgentOnOpenChat ==
    /\ Len(csRequests) < MaxAgentRequests
    /\ OpenChat(Append(csRequests, CsRequest("OPEN_CHAT")), Len(csRequests) + 1)
    /\ UNCHANGED <<lifeRest, chanVars>>
    /\ UNCHANGED <<detVars, elemVars, sideVars>>

\* chrome.runtime.onMessage: case 'CLOSE_CHAT'
AgentOnCloseChat ==
    /\ Len(csRequests) < MaxAgentRequests
    /\ CloseChat
    /\ csRequests' = CsAnswer(Append(csRequests, CsRequest("CLOSE_CHAT")),
                              Len(csRequests) + 1, CloseAnswer)
    /\ UNCHANGED <<body, lifeRest, chanVars>>
    /\ UNCHANGED <<detVars, elemVars, sideVars>>

\* chrome.runtime.onMessage: default
AgentOnUnknown ==
    /\ Len(csRequests) < MaxAgentRequests
    /\ csRequests' = CsAnswer(Append(csRequests, CsRequest("PING")),
                              Len(csRequests) + 1, "error")
    /\ UNCHANGED <<isWidgetOpen, widgetFrame, openCalls, closeHandled, domVars,
                   requests, lifeRest, chanVars>>
    /\ UNCHANGED <<detVars, elemVars, sideVars>>

\* keydown Ctrl/Cmd + Shift + P
Shortcut ==
    /\ ToggleChat(csRequests, 0)
    /\ UNCHANGED <<lifeRest, chanVars>>
    /\ UNCHANGED <<detVars, elemVars, sideVars>>

\* the widget's close button: postMessage CLOSE_CHAT_WIDGET to the parent
CloseButton ==
    /\ domFrames # {}
    /\ Len(toAgent) < MaxClosePosts
    /\ toAgent' = Append(toAgent, [type |-> "CLOSE_CHAT_WIDGET"])
    /\ UNCHANGED <<uiVars, toWidget, agentVars, domVars, ctxVars, pageVars, bgVars,
                   budget>>
    /\ UNCHANGED <<detVars, elemVars, sideVars>>

\* window 'message': event.data.type === 'CLOSE_CHAT_WIDGET'
AgentOnCloseWidget ==
    /\ toAgent # <<>>
    /\ Head(toAgent).type = "CLOSE_CHAT_WIDGET"
    /\ toAgent' = Tail(toAgent)
    /\ CloseChat
    /\ UNCHANGED <<csRequests, body, toWidget, lifeRest>>
    /\ UNCHANGED <<detVars, elemVars, sideVars>>

\* openChat's body: document.body.appendChild(widgetFrame) appends the
\* element the global refers to now, appendChild(resizeHandle) the local of
\* call k. appendChild(null) throws, and so does a missing body; the catch
\* block logs and the call returns normally.
AppendWidget(k, frame) ==
    IF body /\ frame # NoFrame
    THEN /\ domFrames' = domFrames \cup {frame}
         /\ domHandles' = Append(domHandles, k)
         /\ isWidgetOpen' = TRUE
         /\ marginRight' = "420px"
         /\ openCalls' = [openCalls EXCEPT ![k].pc = "done"]
    ELSE /\ openCalls' = [openCalls EXCEPT ![k].pc = "failed"]
         /\ UNCHANGED <<domFrames, domHandles, isWidgetOpen, marginRight>>

\* openChat resumes with the GET_CURRENT_TAB response: creates the iframe,
\* assigns the global, creates the handle; with a body ensureBodyReady is
\* already resolved and the append follows in the same task.
OpenAfterTab(k) ==
    /\ k \in DOMAIN openCalls
    /\ openCalls[k].pc = "awaitTab"
    /\ requests[openCalls[k].rid].pc = "done"
    /\ widgetFrame' = k
    /\ IF body
       THEN /\ AppendWidget(k, k)
            /\ csRequests' = CsAnswer(csRequests, openCalls[k].req, "success")
       ELSE /\ openCalls' = [openCalls EXCEPT ![k].pc = "awaitBody"]
            /\ UNCHANGED <<domFrames, domHandles, isWidgetOpen, marginRight,
                           csRequests>>
    /\ UNCHANGED <<body, closeHandled, requests, lifeRest, chanVars>>
    /\ UNCHANGED <<detVars, elemVars, sideVars>>

\* ensureBodyReady resolves: the observer saw the body, or the 1 s fallback
\* ran out (with or without a body)
OpenAppend(k) ==
    /\ k \in DOMAIN openCalls
    /\ openCalls[k].pc = "awaitBody"
    /\ AppendWidget(k, widgetFrame)
    /\ csRequests' = CsAnswer(csRequests, openCalls[k].req, "success")
    /\ UNCHANGED <<widgetFrame, body, closeHandled, requests, lifeRest, chanVars>>
    /\ UNCHANGED <<detVars, elemVars, sideVars>>

\* the parser creates document.body
BodyAppears ==
    /\ ~body
    /\ body' = TRUE
    /\ UNCHANGED <<domFrames, domHandles, marginRight, agentVars, uiVars, ctxVars,
                   pageVars, bgVars, chanVars, budget>>
    /\ UNCHANGED <<detVars, elemVars, sideVars>>

(***************************************************************************)
(* Page context: extractPageContext and the content script's answer.       *)
(***************************************************************************)
\* The messages carry a type only. call is not part of any message: it
\* records, for stating properties, which extractPageContext call posted a
\* request and which request a reply answers.
ContextRequest(id) == [type |-> "EXTRACT_CONTEXT", call |-> id]
ContextReply(v, failed, id) ==
    [type |-> "CONTEXT_EXTRACTED", context |-> IF failed THEN <<>> ELSE <<v>>,
     error |-> failed, call |-> id]
UpdateNeeded == [type |-> "CONTEXT_UPDATE_NEEDED"]

\* notifyContextChange, called n times in one task
NotifyContextChange(q, n) ==
    IF n = 0 THEN q
    ELSE IF n = 1 THEN PostToWidget(q, UpdateNeeded)
    ELSE PostToWidget(PostToWidget(q, UpdateNeeded), UpdateNeeded)

\* popstate, hashchange and pageshow notify once; the patched
\* history.pushState / replaceState dispatch an event whose listener
\* notifies and then notify directly.
Navigate ==
    /\ pageVersion < MaxPageVersions
    /\ pageVersion' = pageVersion + 1
    /\ \E n \in {1, 2} : toWidget' = NotifyContextChange(toWidget, n)
    /\ UNCHANGED <<context, ctxListeners, ctxCalls, toAgent, uiVars, agentVars,
                   domVars, pageVars, bgVars, budget>>
    /\ UNCHANGED <<detVars, elemVars, sideVars>>

\* ChatWidget handleMessage: CONTEXT_UPDATE_NEEDED calls extractPageContext,
\* which posts EXTRACT_CONTEXT and registers a listener
WidgetOnUpdateNeeded ==
    /\ toWidget # <<>>
    /\ Head(toWidget).type = "CONTEXT_UPDATE_NEEDED"
    /\ ctxCalls < MaxExtracts
    /\ toWidget' = Tail(toWidget)
    /\ ctxCalls' = ctxCalls + 1
    /\ toAgent' = Append(toAgent, ContextRequest(ctxCalls + 1))
    /\ ctxListeners' = ctxListeners \cup {ctxCalls + 1}
    /\ UNCHANGED <<context, pageVersion, uiVars, agentVars, domVars, pageVars,
                   bgVars, budget>>
    /\ UNCHANGED <<detVars, elemVars, sideVars>>

\* window 'message': event.data.type === 'EXTRACT_CONTEXT'; extractContext
\* returns or throws
AgentOnExtract ==
    /\ toAgent # <<>>
    /\ Head(toAgent).type = "EXTRACT_CONTEXT"
    /\ toAgent' = Tail(toAgent)
    /\ \E failed \in BOOLEAN :
         toWidget' = PostToWidget(toWidget,
                        ContextReply(pageVersion, failed, Head(toAgent).call))
    /\ UNCHANGED <<ctxVars, uiVars, agentVars, domVars, pageVars, bgVars, budget>>
    /\ UNCHANGED <<detVars, elemVars, sideVars>>

\* A CONTEXT_EXTRACTED message reaches the widget window: every listener
\* still registered matches it by type, sets the context and removes itself.
WidgetOnContextExtracted ==
    /\ toWidget # <<>>
    /\ Head(toWidget).type = "CONTEXT_EXTRACTED"
    /\ toWidget' = Tail(toWidget)
    /\ IF ctxListeners = {}
       THEN UNCHANGED <<context, ctxListeners>>
       ELSE context' = Head(toWidget).context /\ ctxListeners' = {}
    /\ UNCHANGED <<ctxCalls, pageVersion, toAgent, uiVars, agentVars, domVars,
                   pageVars, bgVars, budget>>
    /\ UNCHANGED <<detVars, elemVars, sideVars>>

\* A timeout that also resets the context to null.
ContextTimeoutClears(id) ==
    /\ id \in ctxListeners
    /\ ctxListeners' = ctxListeners \ {id}
    /\ context' = <<>>
    /\ UNCHANGED <<ctxCalls, pageVersion, chanVars, uiVars, agentVars,
                   domVars, pageVars, bgVars, budget>>
    /\ UNCHANGED <<detVars, elemVars, sideVars>>

\* setTimeout 5000: the listener of call id is removed
ContextTimeout(id) ==
    /\ id \in ctxListeners
    /\ ctxListeners' = ctxListeners \ {id}
    /\ UNCHANGED <<context, ctxCalls, pageVersion, chanVars, uiVars, agentVars,
                   domVars, pageVars, bgVars, budget>>
    /\ UNCHANGED <<detVars, elemVars, sideVars>>

(***************************************************************************)
(* Content script: the change detector.                                    *)
(***************************************************************************)
\* The URL of the page is its version number: every navigation makes a new
\* one. getDomSignature values the mutations move between.
SigValues == {0, 50, 200, 250, 450}

Abs(n) == IF n < 0 THEN 0 - n ELSE n

\* A comparison that takes a delta of exactly THRESHOLD as minor.
SignificantStrict(delta) == delta > THRESHOLD

\* delta >= THRESHOLD
Significant(delta) == delta >= THRESHOLD

\* History of the observer callbacks since the debounce timer was last idle:
\* how many callbacks ran, how many notifyContextChange calls and signature
\* comparisons they and their timer made, whether one of them took the URL
\* branch, whether the timer was set by the latest of them. total counts
\* the callbacks of the whole run.
NoBurst == [mutations |-> 0, signals |-> 0, compares |-> 0, url |-> FALSE,
            fresh |-> FALSE, total |-> 0]

\* An observer callback that also compares and notifies at once, before it
\* sets the timer.
MutateEager(s) ==
    /\ burst.total < MaxMutations
    /\ pageSig' = s
    /\ domChangeTimer' = TRUE
    /\ LET b == IF domChangeTimer THEN burst
                ELSE [NoBurst EXCEPT !.total = burst.total] IN
       IF Significant(Abs(s - lastDomSignature))
       THEN /\ lastDomSignature' = s
            /\ toWidget' = NotifyContextChange(toWidget, 1)
            /\ burst' = [b EXCEPT !.mutations = @ + 1, !.total = @ + 1,
                                  !.signals = @ + 1, !.compares = @ + 1,
                                  !.fresh = TRUE]
       ELSE /\ burst' = [b EXCEPT !.mutations = @ + 1, !.total = @ + 1,
                                  !.compares = @ + 1, !.fresh = TRUE]
            /\ UNCHANGED <<lastDomSignature, toWidget>>
    /\ UNCHANGED <<lastUrl, toAgent, uiVars, agentVars, domVars, ctxVars, pageLog,
                   elemVars, sideVars,
                   bgVars, budget>>

\* A childList mutation under the body changes the text length to s; the
\* MutationObserver callback runs.
Mutate(s) ==
    /\ burst.total < MaxMutations
    /\ pageSig' = s
    /\ LET b == IF domChangeTimer THEN burst
                ELSE [NoBurst EXCEPT !.total = burst.total] IN
       IF pageVersion # lastUrl
       THEN /\ lastUrl' = pageVersion
            /\ toWidget' = NotifyContextChange(toWidget, 1)
            /\ lastDomSignature' = s
            /\ burst' = [b EXCEPT !.mutations = @ + 1, !.total = @ + 1,
                                  !.signals = @ + 1, !.url = TRUE,
                                  !.fresh = FALSE]
            /\ UNCHANGED domChangeTimer
       ELSE /\ domChangeTimer' = TRUE
            /\ burst' = [b EXCEPT !.mutations = @ + 1, !.total = @ + 1,
                                  !.fresh = TRUE]
            /\ UNCHANGED <<lastUrl, lastDomSignature, toWidget>>
    /\ UNCHANGED <<toAgent, uiVars, agentVars, domVars, ctxVars, pageLog, elemVars, sideVars, bgVars,
                   budget>>

\* A timer callback that takes every signature it compares as the new
\* baseline.
BaselineFollows(last, current) == current

\* lastDomSignature after the timer callback has compared the signature
\* current with it: assigned inside `if (delta >= THRESHOLD)` only
Baseline(last, current) ==
    IF Significant(Abs(current - last)) THEN current ELSE last

\* the 500 ms timer set by an observer callback fires
TimerFires ==
    /\ domChangeTimer
    /\ domChangeTimer' = FALSE
    /\ lastDomSignature' = Baseline(lastDomSignature, pageSig)
    /\ IF Significant(Abs(pageSig - lastDomSignature))
       THEN /\ toWidget' = NotifyContextChange(toWidget, 1)
            /\ burst' = [burst EXCEPT !.compares = @ + 1, !.signals = @ + 1]
       ELSE /\ burst' = [burst EXCEPT !.compares = @ + 1]
            /\ UNCHANGED toWidget
    /\ UNCHANGED <<pageSig, lastUrl, toAgent, uiVars, agentVars, domVars, ctxVars,
                   pageLog, elemVars, sideVars, bgVars, budget>>

(***************************************************************************)
(* The widget is open and mounted, the context request of the mount was    *)
(* answered, nothing is pending.                                           *)
(***************************************************************************)
InitOpen ==
    /\ messages = <<>>
    /\ isLoading = FALSE
    /\ pendingAction = [c \in Categories |-> <<>>]
    /\ uiSend = IdleSend
    /\ uiClears = {}
    /\ toAgent = <<>>
    /\ toWidget = <<>>
    /\ isWidgetOpen = TRUE
    /\ widgetFrame = 1
    /\ openCalls = <<OpenCall(0, 0, "done")>>
    /\ csRequests = <<>>
    /\ closeHandled = FALSE
    /\ body = TRUE
    /\ domFrames = {1}
    /\ domHandles = <<1>>
    /\ marginRight = "420px"
    /\ pageVersion = 0
    /\ context = <<0>>
    /\ ctxListeners = {}
    /\ ctxCalls = 1
    /\ pageLog = {}
    /\ pageSig = 0
    /\ lastUrl = 0
    /\ lastDomSignature = 0
    /\ domChangeTimer = FALSE
    /\ burst = NoBurst
    /\ page = UnknownPage
    /\ toggles = <<>>
    /\ clickables = <<>>
    /\ requests = <<>>
    /\ chatHistory = EmptyStore
    /\ budget = [sends |-> 0, confirms |-> 0, pagePosts |-> 0, newChats |-> 0]

NextActions ==
    \/ \E input \in Inputs : HandleSendStart(input)
    \/ HandleSendReply
    \/ HandleSendLoaded
    \/ \E c \in Categories : ConfirmClick(c) \/ CancelClick(c) \/ WidgetOnResult(c)
    \/ AgentOnClick
    \/ AgentOnHighlight
    \/ AgentOnFillForm
    \/ \E i \in DOMAIN requests : BgHandle(i)
    \/ \E i \in DOMAIN requests : BgGenerate(i)
    \/ \E i \in DOMAIN requests : BgSaveGet(i)
    \/ \E i \in DOMAIN requests : BgSaveSet(i)

\* The confirmation protocol between the widget, the content script and the
\* page, with the background answering the widget's requests. The widget is
\* the only sender on toAgent here; New Chat is left to the specifications of
\* the chat history.
SpecActions == InitOpen /\ [][NextActions]_vars

NextAgent ==
    \/ PagePost
    \/ AgentOnClick
    \/ AgentOnHighlight
    \/ AgentOnFillForm
    \/ \E c \in Categories : WidgetOnResult(c)
    \/ WidgetOnOther

\* The content script's 'message' listener under messages from any sender.
SpecAgent == InitOpen /\ [][NextAgent]_vars

(***************************************************************************)
(* The content script has loaded, the widget was never opened.             *)
(***************************************************************************)
InitClosed ==
    /\ messages = <<>>
    /\ isLoading = FALSE
    /\ pendingAction = [c \in Categories |-> <<>>]
    /\ uiSend = IdleSend
    /\ uiClears = {}
    /\ toAgent = <<>>
    /\ toWidget = <<>>
    /\ isWidgetOpen = FALSE
    /\ widgetFrame = NoFrame
    /\ openCalls = <<>>
    /\ csRequests = <<>>
    /\ closeHandled = FALSE
    /\ body \in BOOLEAN
    /\ domFrames = {}
    /\ domHandles = <<>>
    /\ marginRight = ""
    /\ pageVersion = 0
    /\ context = <<>>
    /\ ctxListeners = {}
    /\ ctxCalls = 0
    /\ pageLog = {}
    /\ pageSig = 0
    /\ lastUrl = 0
    /\ lastDomSignature = 0
    /\ domChangeTimer = FALSE
    /\ burst = NoBurst
    /\ page = UnknownPage
    /\ toggles = <<>>
    /\ clickables = <<>>
    /\ requests = <<>>
    /\ chatHistory = EmptyStore
    /\ budget = [sends |-> 0, confirms |-> 0, pagePosts |-> 0, newChats |-> 0]

\* chrome.runtime messages to the background
BgTypes == {"GET_CURRENT_TAB", "GET_AVAILABLE_MODELS", "SEND_MESSAGE",
            "GET_CHAT_HISTORY", "CLEAR_CHAT_HISTORY", "PING"}

\* a message reaches the background listener from the widget (its tab) or
\* from an extension page (no tab)
BgDeliver ==
    /\ Cardinality({i \in DOMAIN requests : requests[i].type # "GET_CURRENT_TAB"
                                            \/ requests[i].tab = NoTab})
         < MaxBgRequests
    /\ \E type \in BgTypes : \E tab \in {WidgetTab, NoTab} :
         /\ type = "GET_CURRENT_TAB" => tab = NoTab
         /\ requests' = Append(requests, Request(type, tab))
    /\ UNCHANGED <<chatHistory, uiVars, chanVars, agentVars, domVars, ctxVars,
                   pageVars, budget>>
    /\ UNCHANGED <<detVars, elemVars, sideVars>>

NextWidget ==
    \/ AgentOnToggleChat
    \/ AgentOnOpenChat
    \/ AgentOnCloseChat
    \/ AgentOnUnknown
    \/ Shortcut
    \/ CloseButton
    \/ AgentOnCloseWidget
    \/ \E k \in DOMAIN openCalls : OpenAfterTab(k)
    \/ \E k \in DOMAIN openCalls : OpenAppend(k)
    \/ BodyAppears
    \/ \E i \in DOMAIN requests : BgHandle(i)

\* Opening and closing the widget from every source.
SpecWidget == InitClosed /\ [][NextWidget]_vars

NextRouter ==
    \/ BgDeliver
    \/ \E i \in DOMAIN requests : BgHandle(i)
    \/ \E i \in DOMAIN requests : BgGenerate(i)
    \/ \E i \in DOMAIN requests : BgSaveGet(i)
    \/ \E i \in DOMAIN requests : BgSaveSet(i)
    \/ AgentOnToggleChat
    \/ AgentOnOpenChat
    \/ AgentOnCloseChat
    \/ AgentOnUnknown
    \/ \E k \in DOMAIN openCalls : OpenAfterTab(k)
    \/ \E k \in DOMAIN openCalls : OpenAppend(k)
    \/ BodyAppears

\* The two chrome.runtime.onMessage listeners answering their requests.
SpecRouter == InitClosed /\ [][NextRouter]_vars

NextContext ==
    \/ Navigate
    \/ WidgetOnUpdateNeeded
    \/ AgentOnExtract
    \/ WidgetOnContextExtracted
    \/ \E id \in ctxListeners : ContextTimeout(id)

\* The widget refreshing its page context while the page navigates.
SpecContext == InitOpen /\ [][NextContext]_vars

(***************************************************************************)
(* The widget has just mounted: its effect has called extractPageContext,  *)
(* the history and model requests of the mount were answered.              *)
(***************************************************************************)
InitMount ==
    /\ messages = <<>>
    /\ isLoading = FALSE
    /\ pendingAction = [c \in Categories |-> <<>>]
    /\ uiSend = IdleSend
    /\ uiClears = {}
    /\ toAgent = <<ContextRequest(1)>>
    /\ toWidget = <<>>
    /\ isWidgetOpen = TRUE
    /\ widgetFrame = 1
    /\ openCalls = <<OpenCall(0, 0, "done")>>
    /\ csRequests = <<>>
    /\ closeHandled = FALSE
    /\ body = TRUE
    /\ domFrames = {1}
    /\ domHandles = <<1>>
    /\ marginRight = "420px"
    /\ pageVersion = 0
    /\ context = <<>>
    /\ ctxListeners = {1}
    /\ ctxCalls = 1
    /\ pageLog = {}
    /\ pageSig = 0
    /\ lastUrl = 0
    /\ lastDomSignature = 0
    /\ domChangeTimer = FALSE
    /\ burst = NoBurst
    /\ page = UnknownPage
    /\ toggles = <<>>
    /\ clickables = <<>>
    /\ requests = <<>>
    /\ chatHistory = EmptyStore
    /\ budget = [sends |-> 0, confirms |-> 0, pagePosts |-> 0, newChats |-> 0]

NextMount ==
    \/ Navigate
    \/ WidgetOnUpdateNeeded
    \/ AgentOnExtract
    \/ WidgetOnContextExtracted
    \/ \E id \in ctxListeners : ContextTimeout(id)
    \/ \E input \in Inputs : HandleSendStart(input)
    \/ HandleSendReply
    \/ HandleSendLoaded
    \/ \E i \in DOMAIN requests : BgHandle(i)
    \/ \E i \in DOMAIN requests : BgGenerate(i)
    \/ \E i \in DOMAIN requests : BgSaveGet(i)
    \/ \E i \in DOMAIN requests : BgSaveSet(i)

\* Chatting while the page context is being extracted and refreshed.
SpecMount == InitMount /\ [][NextMount]_vars

NextDetector ==
    \/ Navigate
    \/ \E s \in SigValues : Mutate(s)
    \/ TimerFires

\* The change detector under navigations and DOM mutations of the page.
SpecDetector == InitOpen /\ [][NextDetector]_vars

(***************************************************************************)
(* What the user may type into the input box: optional leading whitespace, *)
(* a first word, a separator, an opening quote, a body, a closing quote.   *)
(***************************************************************************)
Leads == {<<>>, <<" ">>}
Verbs == {<<"highlight">>, <<"Highlight">>, <<"scroll">>, <<"scroll", " ", "to">>,
          <<"Submit">>}
Seps == {<<>>, <<" ">>, <<":">>, <<":", " ">>, <<" ", ":", " ">>}
Quotes == {<<>>, <<DQ>>, <<SQ>>}
Bodies == {<<>>, <<" ">>, <<"Submit">>, <<"Submit", " ", "now">>, <<"to">>,
           <<"id=", "Submit">>, <<"name=", "Submit">>,
           <<"id=", "Submit", " ", "now">>}
RawInputs ==
    {l \o v \o p \o q1 \o b \o q2 :
        l \in Leads, v \in Verbs, p \in Seps, q1 \in Quotes, b \in Bodies,
        q2 \in Quotes}

\* InitOpen with the last handleSend of the run still to come
InitLastSend ==
    /\ messages = <<>>
    /\ isLoading = FALSE
    /\ pendingAction = [c \in Categories |-> <<>>]
    /\ uiSend = IdleSend
    /\ uiClears = {}
    /\ toAgent = <<>>
    /\ toWidget = <<>>
    /\ isWidgetOpen = TRUE
    /\ widgetFrame = 1
    /\ openCalls = <<OpenCall(0, 0, "done")>>
    /\ csRequests = <<>>
    /\ closeHandled = FALSE
    /\ body = TRUE
    /\ domFrames = {1}
    /\ domHandles = <<1>>
    /\ marginRight = "420px"
    /\ pageVersion = 0
    /\ context = <<0>>
    /\ ctxListeners = {}
    /\ ctxCalls = 1
    /\ pageLog = {}
    /\ pageSig = 0
    /\ lastUrl = 0
    /\ lastDomSignature = 0
    /\ domChangeTimer = FALSE
    /\ burst = NoBurst
    /\ page = UnknownPage
    /\ toggles = <<>>
    /\ clickables = <<>>
    /\ requests = <<>>
    /\ chatHistory = EmptyStore
    /\ budget = [sends |-> MaxSends - 1, confirms |-> 0, pagePosts |-> 0,
                 newChats |-> 0]

NextLocal ==
    \/ \E input \in RawInputs : HandleSendStart(input)
    \/ \E c \in Categories : ConfirmClick(c)
    \/ \E c \in Categories : CancelClick(c)

\* handleSend on every input of RawInputs, and the buttons of the
\* confirmation card a local command brings up.
SpecLocal == InitLastSend /\ [][NextLocal]_vars

(***************************************************************************)
(* Properties of the confirmation protocol (SpecActions).                  *)
(***************************************************************************)
\* C1: the content script carries out a FillForm, Click or Highlight command
\* against the page only for a request whose confirm flag is true, in each
\* of the three categories.
C1_ExecutedOnlyConfirmed ==
    \A e \in pageLog : e.ok => e.confirm = "true"

\* C2: in every state each of the categories form, click and highlight has
\* at most one command awaiting confirmation.
C2_AtMostOnePending ==
    \A c \in Categories : Len(pendingAction[c]) <= 1

\* every category holds a command, after two commands were produced
C2_Witness ==
    /\ \A c \in Categories : Len(pendingAction[c]) = 1
    /\ budget.sends = 2
    /\ Len(chatHistory[WidgetTab]) = 4

\* the request posted in this step, if the step posts one
PostedRequest == toAgent'[Len(toAgent')]

\* C3: a command produced while one of its category is pending replaces it
\* wholesale: after the reply is parsed (or the local command typed) the slot
\* holds exactly the new command, and an execution request posted from then
\* on carries the command the slot holds, never an older one.
C3_ReplacedWholesale ==
    [][ \A c \in Categories :
          /\ ( /\ uiSend.pc = "awaitReply"
               /\ uiSend'.pc = "awaitHistory"
               /\ pendingAction[c] # <<>>
               /\ Stores(c, Before(c, requests[uiSend.rid].answers[1].reply)) )
             => pendingAction'[c] =
                  <<StoredCommand(c, Before(c, requests[uiSend.rid].answers[1].reply))>>
          /\ ( /\ Len(toAgent') = Len(toAgent) + 1
               /\ PostedRequest.type = ReqType(c) )
             => /\ pendingAction[c] # <<>>
                /\ PostedRequest.fields = pendingAction[c][1].fields
                /\ PostedRequest.target = pendingAction[c][1].target
      ]_vars

\* the second reply's click and form commands replaced the first reply's, and
\* the request in flight carries the new click command
C3_Witness ==
    /\ Len(chatHistory[WidgetTab]) = 4
    /\ chatHistory[WidgetTab][2].content =
          Reply(OkForm(FieldsA), OkTarget(TargetB), OkTarget(TargetA), FALSE)
    /\ chatHistory[WidgetTab][4].content =
          Reply(NoMarker, OkTarget(TargetA), NoMarker, FALSE)
    /\ pendingAction["click"] = <<TargetCommand(TargetA)>>
    /\ pendingAction["form"] = <<FormCommand(FieldsA)>>
    /\ budget.confirms = 1
    /\ Len(toAgent) = 1
    /\ toAgent[1].target = TargetA

\* execution requests of category c the widget has posted whose result it has
\* not yet received
InFlight(c) ==
    Cardinality({i \in DOMAIN toAgent :
                    toAgent[i].type = ReqType(c) /\ toAgent[i].src = "widget"})
    + Cardinality({i \in DOMAIN toWidget :
                    toWidget[i].type = ResType(c) /\ toWidget[i].cause = "widget"})

\* C4: per category, once an execution request has been posted no further
\* one is posted until the result of the first has been received.
C4_OneExecutionInFlight ==
    \A c \in Categories : InFlight(c) <= 1

\* C5: when the widget receives the result of category c, success or
\* failure, the slot of c is empty afterwards.
C5_ResultClearsSlot ==
    [][ \A c \in Categories :
          ( /\ toWidget # <<>>
            /\ toWidget' = Tail(toWidget)
            /\ Head(toWidget).type = ResType(c) )
          => pendingAction'[c] = <<>>
      ]_vars

\* a failed click was received, and the click command of a later reply has
\* been stored and confirmed
C5_Witness ==
    /\ \E i \in DOMAIN messages :
          /\ messages[i].content = PlainContent(ResultText("click", FALSE))
          /\ \E j \in DOMAIN messages : j > i /\ messages[j].content[1] = Word("reply")
    /\ pendingAction["click"] # <<>>
    /\ \E k \in DOMAIN toAgent : toAgent[k].type = "CLICK_ELEMENT"

\* C6: Cancel empties the slot of its category and nothing else: no request
\* is posted to the content script, the page is not touched, the other two
\* slots keep their commands.
C6_CancelOnlyClears ==
    [][ \A c \in Categories :
          CancelClick(c) =>
            /\ pendingAction'[c] = <<>>
            /\ \A d \in Categories \ {c} : pendingAction'[d] = pendingAction[d]
            /\ toAgent' = toAgent
            /\ pageLog' = pageLog
      ]_vars

\* Only Cancel can have emptied the click slot here: no Confirm button was
\* clicked, so no result has arrived; the form and highlight commands of the
\* same reply are still pending.
C6_Witness ==
    /\ budget.confirms = 0
    /\ budget.sends = 1
    /\ Len(chatHistory[WidgetTab]) = 2
    /\ chatHistory[WidgetTab][2].content =
          Reply(OkForm(FieldsA), OkTarget(TargetB), OkTarget(TargetA), FALSE)
    /\ uiSend.pc = "idle"
    /\ pendingAction["click"] = <<>>
    /\ pendingAction["form"] = <<FormCommand(FieldsA)>>
    /\ pendingAction["highlight"] = <<TargetCommand(TargetA)>>
    /\ toAgent = <<>>
    /\ pageLog = {}

(***************************************************************************)
(* Properties of opening and closing (SpecWidget).                         *)
(***************************************************************************)
\* C7: whatever the order of open, toggle and close requests, also while an
\* earlier open is waiting on its asynchronous steps, the page holds at most
\* one injected widget frame and at most one resize handle.
C7_AtMostOneSurface ==
    /\ Cardinality(domFrames) <= 1
    /\ Len(domHandles) <= 1

\* C8: after closeChat has handled a close request and until the next open
\* request is made, the page holds no widget frame and no resize handle, the
\* body margin is reset and isWidgetOpen is false.
C8_ClosedStaysClean ==
    closeHandled =>
        /\ domFrames = {}
        /\ domHandles = <<>>
        /\ marginRight = ""
        /\ ~isWidgetOpen

(***************************************************************************)
(* Properties of the runtime message listeners (SpecRouter).               *)
(***************************************************************************)
\* the requests handleMessage answers with a result when nothing fails
BgKnown(r) ==
    \/ r.type \in {"GET_CURRENT_TAB", "GET_AVAILABLE_MODELS"}
    \/ r.type \in TabScoped /\ r.tab # NoTab

\* C9: every request delivered to the background listener or to the content
\* script's runtime listener gets exactly one response when its handler is
\* over and none before; an unknown type, a missing tab id and an exception
\* inside the handler are answered {error}.
C9_AnsweredOnceResultOrError ==
    /\ \A i \in DOMAIN requests :
         /\ Len(requests[i].answers) = IF requests[i].pc = "done" THEN 1 ELSE 0
         /\ (requests[i].pc = "done" /\ ~BgKnown(requests[i]))
              => requests[i].answers[1] = ErrorAnswer
    /\ \A i \in DOMAIN csRequests :
         /\ Len(csRequests[i].answers) = IF csRequests[i].pc = "done" THEN 1 ELSE 0
         /\ (csRequests[i].pc = "done" /\ csRequests[i].type = "PING")
              => csRequests[i].answers[1] = "error"
         /\ \A k \in DOMAIN openCalls :
              (openCalls[k].req = i /\ openCalls[k].pc = "failed")
                => csRequests[i].answers[1] = "error"

(***************************************************************************)
(* Properties of the page context exchange (SpecContext).                  *)
(***************************************************************************)
\* C10: a reply resolves exactly the request that caused it: when a
\* CONTEXT_EXTRACTED message is received, the only extractPageContext call
\* whose listener it resolves is the call whose request it answers.
C10_ReplyResolvesItsRequest ==
    [][ ( /\ toWidget # <<>>
          /\ Head(toWidget).type = "CONTEXT_EXTRACTED"
          /\ toWidget' = Tail(toWidget) )
        => (ctxListeners \ ctxListeners') \subseteq {Head(toWidget).call}
      ]_vars

(***************************************************************************)
(* Properties of the context timeout (SpecMount).                          *)
(***************************************************************************)
\* the 5 s timer of an extractPageContext call fires in this step
TimeoutStep ==
    /\ ctxListeners' # ctxListeners
    /\ ctxListeners' \subseteq ctxListeners
    /\ toWidget' = toWidget

\* the user can send a chat message
CanSend == ENABLED HandleSendStart(ChatInput)

C12_UrlChangeSignalsAndResets ==
    [][ (pageVersion' # pageVersion \/ lastUrl' # lastUrl)
        => /\ Len(toWidget') > Len(toWidget)
           /\ lastDomSignature' = pageSig'
      ]_vars

\* the debounce timer fires in this step
TimerStep == domChangeTimer /\ ~domChangeTimer'

\* the staleness signals posted in this step
Emitted == Len(toWidget') - Len(toWidget)

\* C13: when the debounce timer fires, a staleness signal is emitted if and
\* only if the current signature differs from the baseline by at least 200
\* characters: none for a difference of 50, exactly one for 250.
C13_SignalIffThreshold ==
    [][ TimerStep =>
          /\ Emitted = IF Abs(pageSig - lastDomSignature) >= 200 THEN 1 ELSE 0
          /\ Abs(pageSig - lastDomSignature) = 50 => Emitted = 0
          /\ Abs(pageSig - lastDomSignature) = 250 => Emitted = 1
      ]_vars

\* Two bursts of one mutation each with the URL unchanged: the first changed
\* the text by less than the threshold and emitted nothing, the second
\* brought the difference to 250 and emitted the only signal.
C13_Witness ==
    /\ pageVersion = 0
    /\ burst.total = 2
    /\ burst.mutations = 1
    /\ burst.compares = 1
    /\ burst.signals = 1
    /\ Len(toWidget) = 1
    /\ pageSig = 250
    /\ lastDomSignature = 250
    /\ ~domChangeTimer

\* C14 as stated: the observer callbacks that run while the debounce timer is
\* set are one burst; the signature is compared once, by the timer set by the
\* last of them, and the burst emits at most one staleness signal.
C14_BurstOneSignal ==
    /\ burst.signals <= 1
    /\ burst.compares <= 1
    /\ burst.compares = 1 => burst.fresh

\* C14: the same for a burst during which the observer saw no URL change.
C14_BurstOneSignalSameUrl ==
    ~burst.url =>
        /\ burst.signals <= 1
        /\ burst.compares <= 1
        /\ burst.compares = 1 => burst.fresh

\* a finished burst of three mutations with one comparison and one signal
C14_Witness ==
    /\ ~burst.url
    /\ burst.mutations = 3
    /\ burst.compares = 1
    /\ burst.signals = 1
    /\ ~domChangeTimer

(***************************************************************************)
(* Properties of the local command grammar (SpecLocal).                    *)
(***************************************************************************)
\* The grammar as the specification gives it: highlight or scroll [to],
\* whitespace, a text with or without quotes; highlight id=... / name=....
\* Each case is an input and the target it stands for.
GrammarTexts == {<<"Submit">>, <<"Submit", " ", "now">>}
GrammarCases ==
    {[raw |-> l \o v \o <<" ">> \o q \o b \o q, target |-> TextTarget(Join(b))] :
        l \in Leads,
        v \in {<<"highlight">>, <<"Highlight">>, <<"scroll">>,
               <<"scroll", " ", "to">>},
        q \in Quotes, b \in GrammarTexts}
    \cup
    {[raw |-> l \o v \o <<" ", "id=", "Submit">>,
      target |-> [id |-> "Submit", name |-> "", text |-> ""]] :
        l \in Leads, v \in {<<"highlight">>, <<"Highlight">>}}
    \cup
    {[raw |-> l \o v \o <<" ", "name=", "Submit">>,
      target |-> [id |-> "", name |-> "Submit", text |-> ""]] :
        l \in Leads, v \in {<<"highlight">>, <<"Highlight">>}}

\* handleSend has taken the text in this step
SentText(text) ==
    /\ Len(messages') = Len(messages) + 1
    /\ messages'[Len(messages')] = ChatMessage("user", PlainContent(text))

FieldsC == <<[id |-> "a", name |-> "", label |-> "", value |-> "v"],
             [id |-> "", name |-> "", label |-> "", value |-> "z"]>>

\* What a reply may hold for the form category: nothing; a marker with a
\* field list, with "[]", with a payload cut short, with an object in place
\* of the array; a marker that is never closed; two markers, one of them
\* never closed.
FormTexts ==
    { <<>>,
      MarkerText("form", OkForm(FieldsA)),
      MarkerText("form", OkForm(FieldsB)),
      MarkerText("form", OkForm(FieldsC)),
      MarkerText("form", OkForm(<<>>)),
      MarkerText("form", BadMarker),
      <<Open("form"), Json("object", TargetCommand(TargetA)), Close>>,
      <<Open("form"), Junk("array")>>,
      <<Open("form"), Junk("array")>> \o MarkerText("form", OkForm(FieldsA)),
      MarkerText("form", OkForm(FieldsA)) \o <<Open("form"), Junk("array")>> }

\* The same for click and highlight: nothing; a marker with a target, with
\* "{}", with a payload cut short, with "{...}" that is not JSON; a marker
\* that is never closed.
TargetTexts(c) ==
    { <<>>,
      MarkerText(c, OkTarget(TargetA)),
      MarkerText(c, OkTarget(NoTarget)),
      MarkerText(c, BadMarker),
      <<Open(c), Junk("object"), Close>>,
      <<Open(c), Junk("cut")>> }

\* The replies: the words, then the three categories in one order or the
\* other, with or without a script element in front.
ReplyTexts ==
    { lead \o <<Word("reply")>> \o IF forward THEN f \o k \o h ELSE h \o k \o f :
        lead \in {<<>>, <<Script>>}, forward \in BOOLEAN,
        f \in FormTexts, k \in TargetTexts("click"), h \in TargetTexts("highlight") }

\* The connector has answered the one SEND_MESSAGE of the session and the
\* background has saved the exchange.
InitReplied ==
    /\ \E text \in ReplyTexts :
         /\ requests = <<Finish(Request("SEND_MESSAGE", WidgetTab),
                                Answer("content", text, <<>>))>>
         /\ chatHistory = [EmptyStore EXCEPT ![WidgetTab] =
                              <<UserMessage, SavedAssistant(text)>>]
    /\ messages = <<UserMessage>>
    /\ isLoading = TRUE
    /\ pendingAction = NoPending
    /\ uiSend = [pc |-> "awaitReply", rid |-> 1]
    /\ uiClears = {}
    /\ toAgent = <<>>
    /\ toWidget = <<>>
    /\ isWidgetOpen = TRUE
    /\ widgetFrame = 1
    /\ openCalls = <<OpenCall(0, 0, "done")>>
    /\ csRequests = <<>>
    /\ closeHandled = FALSE
    /\ body = TRUE
    /\ domFrames = {1}
    /\ domHandles = <<1>>
    /\ marginRight = "420px"
    /\ pageVersion = 0
    /\ context = <<0>>
    /\ ctxListeners = {}
    /\ ctxCalls = 1
    /\ pageLog = {}
    /\ pageSig = 0
    /\ lastUrl = 0
    /\ lastDomSignature = 0
    /\ domChangeTimer = FALSE
    /\ burst = NoBurst
    /\ page = UnknownPage
    /\ toggles = <<>>
    /\ clickables = <<>>
    /\ budget = [sends |-> MaxSends, confirms |-> 0, pagePosts |-> 0,
                 newChats |-> 0]

NextMarkers ==
    \/ HandleSendReply
    \/ \E i \in DOMAIN requests : BgHandle(i)
    \/ HandleSendLoaded
    \/ \E c \in Categories : ConfirmClick(c)
    \/ \E c \in Categories : CancelClick(c)

\* handleSend from the response on, for every reply of ReplyTexts, and the
\* buttons of the confirmation cards the reply brings up.
SpecMarkers == InitReplied /\ [][NextMarkers]_vars

(***************************************************************************)
(* Properties of the marker blocks of handleSend (SpecMarkers).            *)
(***************************************************************************)
\* the reply handleSend is about to work on
ReplyInHand == requests[uiSend.rid].answers[1].reply

\* handleSend goes from the response to loadChatHistory in this step
ReplyStep == uiSend.pc = "awaitReply" /\ uiSend'.pc = "awaitHistory"

\* the places of text where a form-fill marker with a non-empty field list
\* begins
FormMarkersOf(text) ==
    {i \in DOMAIN text :
        /\ i + 2 \in DOMAIN text
        /\ text[i] = Open("form")
        /\ text[i + 1].t = "json" /\ text[i + 1].s = "array" /\ ~text[i + 1].esc
        /\ text[i + 1].cmd.fields # <<>>
        /\ text[i + 2] = Close}

OpenersOf(c, text) == {i \in DOMAIN text : text[i].t = "open" /\ text[i].s = c}

\* the text the step has appended to the message list
Shown == messages'[Len(messages')].content

\* what C16 promises of a reply r whose form-fill marker begins at i
FormParsed(r, i) ==
    /\ pendingAction'["form"] = <<FormCommand(r[i + 1].cmd.fields)>>
    /\ OpenersOf("form", Shown) = {}
    /\ (OpenersOf("click", r) = {} /\ OpenersOf("highlight", r) = {})
          => Shown = SubSeq(r, 1, i - 1) \o SubSeq(r, i + 3, Len(r))

BadMarkersOf(c, text) ==
    {i \in DOMAIN text :
        i + 1 \in DOMAIN text /\ text[i] = Open(c) /\ text[i + 1].t = "junk"}

\* the places of text where a marker of category c begins whose payload is
\* the JSON text of a command handleSend accepts
GoodMarkersOf(c, text) ==
    IF c = "form" THEN FormMarkersOf(text)
    ELSE {i \in DOMAIN text :
            /\ i + 2 \in DOMAIN text
            /\ text[i] = Open(c)
            /\ text[i + 1].t = "json" /\ text[i + 1].s = "object" /\ ~text[i + 1].esc
            /\ HasIdentifier(text[i + 1].cmd.target)
            /\ text[i + 2] = Close}

\* the command of the marker of category c that begins at i
CommandAt(c, text, i) ==
    IF c = "form" THEN FormCommand(text[i + 1].cmd.fields)
    ELSE TargetCommand(text[i + 1].cmd.target)

\* what C17 promises of a reply r with a bad marker of category b: that
\* marker yields no command, the well-formed markers of the other categories
\* yield theirs, the words of the reply are shown
BadMarkerDropped(r, b) ==
    /\ \/ pendingAction'[b] = pendingAction[b]
       \/ \E i \in GoodMarkersOf(b, r) : pendingAction'[b] = <<CommandAt(b, r, i)>>
    /\ \A c \in Categories \ {b} : \A i \in GoodMarkersOf(c, r) :
          pendingAction'[c] = <<CommandAt(c, r, i)>>
    /\ \E k \in DOMAIN Shown : Shown[k] = Word("reply")

C18_NoMarkerShown ==
    \A i \in DOMAIN messages :
       messages[i].role = "assistant" =>
          \A k \in DOMAIN messages[i].content :
             ~(messages[i].content[k].t = "open" /\ ~messages[i].content[k].esc)

\* field.id || field.name || field.label
FieldIdentified(f) == f.id # "" \/ f.name # "" \/ f.label # ""

\* C19: a pending command names what it acts on: a click or highlight target
\* has an id, a name or a text, and every field of a form command has an id,
\* a name or a label.
C19_PendingIsIdentified ==
    /\ \A c \in {"click", "highlight"} :
          pendingAction[c] # <<>> => HasIdentifier(pendingAction[c][1].target)
    /\ pendingAction["form"] # <<>> =>
          /\ pendingAction["form"][1].fields # <<>>
          /\ \A k \in DOMAIN pendingAction["form"][1].fields :
                FieldIdentified(pendingAction["form"][1].fields[k])

(***************************************************************************)
(* The chat history of the session: sending, and New Chat.                 *)
(***************************************************************************)
NextHistory ==
    \/ HandleSendStart(ChatInput)
    \/ HandleSendReply
    \/ HandleSendLoaded
    \/ NewChatClick
    \/ \E i \in DOMAIN requests : NewChatDone(i)
    \/ \E i \in DOMAIN requests : BgHandle(i)
    \/ \E i \in DOMAIN requests : BgGenerate(i)
    \/ \E i \in DOMAIN requests : BgSaveGet(i)
    \/ \E i \in DOMAIN requests : BgSaveSet(i)

\* The widget sends chat messages and the user clicks New Chat, which is
\* enabled while a reply is awaited; the background answers.
SpecHistory == InitOpen /\ [][NextHistory]_vars

(***************************************************************************)
(* Properties of the persisted history (SpecHistory).                      *)
(***************************************************************************)
\* no message of the persisted history has the system role
NoSystemPersisted ==
    \A t \in TabIds : \A k \in DOMAIN chatHistory[t] :
       chatHistory[t][k].role # "system"

\* saveChatHistory of the SEND_MESSAGE request i writes in this step
SaveStep(i) ==
    /\ requests[i].type = "SEND_MESSAGE"
    /\ requests[i].pc = "saveSet"
    /\ requests'[i].pc = "done"

\* C20: the persisted history never holds a system-role message, and the
\* save of a successful exchange leaves the history of the session as it
\* was with the user's message and the assistant reply appended.
C20_HistoryAppendOnly ==
    [][ /\ NoSystemPersisted'
        /\ \A i \in DOMAIN requests :
              SaveStep(i) =>
                 chatHistory'[requests[i].tab] =
                    chatHistory[requests[i].tab]
                    \o <<UserMessage, SavedAssistant(requests[i].response)>>
      ]_vars

(***************************************************************************)
(* The timers of the executor functions.                                   *)
(***************************************************************************)
\* the timers of one kind run in the order they were set
FirstTimer(kind) ==
    First({k \in DOMAIN page.timers : page.timers[k].kind = kind})

WithoutTimer(timers, k) ==
    SubSeq(timers, 1, k - 1) \o SubSeq(timers, k + 1, Len(timers))

\* the setTimeout callback of clickElement, 200 ms after the call
ClickTimerFires ==
    /\ page.known
    /\ FirstTimer("click") # 0
    /\ LET k == FirstTimer("click")
           el == page.timers[k].el
           e == page.els[el]
           submits == /\ \/ e.tag = "button"
                         \/ e.tag = "input" /\ e.type = "submit"
                      /\ e.inForm
       IN page' = [page EXCEPT
             !.events = @ \o <<Event("mousedown", el), Event("click", el),
                               Event("mouseup", el)>>,
             !.timers = IF submits
                        THEN Append(WithoutTimer(@, k), Timer("submit", el, "", ""))
                        ELSE WithoutTimer(@, k)]
    /\ UNCHANGED <<uiVars, chanVars, agentVars, domVars, ctxVars, pageVars,
                   detVars, sideVars, bgVars, budget>>

\* the inner setTimeout callback of clickElement, 100 ms after the click
SubmitTimerFires ==
    /\ page.known
    /\ FirstTimer("submit") # 0
    /\ LET k == FirstTimer("submit") IN
       page' = [page EXCEPT
             !.events = Append(@, Event("submit", page.timers[k].el)),
             !.timers = WithoutTimer(@, k)]
    /\ UNCHANGED <<uiVars, chanVars, agentVars, domVars, ctxVars, pageVars,
                   detVars, sideVars, bgVars, budget>>

\* the setTimeout callback of highlightElement, 3000 ms after the call
HighlightTimerFires ==
    /\ page.known
    /\ FirstTimer("highlight") # 0
    /\ LET k == FirstTimer("highlight")
           t == page.timers[k]
       IN page' = [page EXCEPT
             !.style[t.el].outline = t.outline,
             !.style[t.el].boxShadow = t.boxShadow,
             !.timers = WithoutTimer(@, k)]
    /\ UNCHANGED <<uiVars, chanVars, agentVars, domVars, ctxVars, pageVars,
                   detVars, sideVars, bgVars, budget>>

(***************************************************************************)
(* Specification: click and highlight commands run against a document.     *)
(***************************************************************************)
MaxElements == 3

\* the documents: up to MaxElements of these elements, in any order
ClickElements ==
    { Element("button", "submit", "a", "", "go", "", "", TRUE, TRUE),
      Element("button", "submit", "", "n", "B", "", "", FALSE, FALSE),
      Element("a", "", "", "", "Ab", "", "", TRUE, FALSE),
      Element("input", "text", "a", "n", "", "", "b", TRUE, TRUE),
      Element("label", "", "", "", "b", "a", "", TRUE, FALSE),
      Element("button", "button", "", "", "b", "", "", TRUE, TRUE) }

SeqsUpTo(S, n) == UNION {[1..k -> S] : k \in 1..n}

ClickPages == {PageOf(els) : els \in SeqsUpTo(ClickElements, MaxElements)}

\* the targets: every choice of id "a", name "n" and text "b", but the empty
\* one
ExecTargets ==
    {t \in [id : {"", "a"}, name : {"", "n"}, text : {"", "b"}] : t # NoTarget}

InitExecutor ==
    /\ messages = <<>>
    /\ isLoading = FALSE
    /\ \E t \in ExecTargets :
         pendingAction = [c \in Categories |->
             IF c = "form" THEN <<>> ELSE <<TargetCommand(t)>>]
    /\ uiSend = IdleSend
    /\ uiClears = {}
    /\ toAgent = <<>>
    /\ toWidget = <<>>
    /\ isWidgetOpen = TRUE
    /\ widgetFrame = 1
    /\ openCalls = <<OpenCall(0, 0, "done")>>
    /\ csRequests = <<>>
    /\ closeHandled = FALSE
    /\ body = TRUE
    /\ domFrames = {1}
    /\ domHandles = <<1>>
    /\ marginRight = "420px"
    /\ pageVersion = 0
    /\ context = <<0>>
    /\ ctxListeners = {}
    /\ ctxCalls = 1
    /\ pageLog = {}
    /\ pageSig = 0
    /\ lastUrl = 0
    /\ lastDomSignature = 0
    /\ domChangeTimer = FALSE
    /\ burst = NoBurst
    /\ page \in ClickPages
    /\ toggles = <<>>
    /\ clickables = <<>>
    /\ requests = <<>>
    /\ chatHistory = EmptyStore
    /\ budget = [sends |-> 0, confirms |-> 0, pagePosts |-> 0, newChats |-> 0]

NextExecutor ==
    \/ \E c \in {"click", "highlight"} : ConfirmClick(c)
    \/ \E c \in {"click", "highlight"} : WidgetOnResult(c)
    \/ AgentOnClick
    \/ AgentOnHighlight
    \/ ClickTimerFires
    \/ SubmitTimerFires
    \/ HighlightTimerFires

SpecExecutor == InitExecutor /\ [][NextExecutor]_vars

(***************************************************************************)
(* Specification: form-fill commands run against a document.               *)
(***************************************************************************)
MaxFields == 3

FillElements ==
    { Element("input", "text", "a", "", "", "", "", TRUE, TRUE),
      Element("div", "", "a", "", "", "", "", TRUE, FALSE),
      Element("input", "number", "", "n", "", "", "", TRUE, TRUE),
      Element("select", "", "", "n", "7", "", "", TRUE, TRUE),
      Element("label", "", "", "", "L", "", "", TRUE, TRUE) }

FillPages == {PageOf(els) : els \in SeqsUpTo(FillElements, MaxElements)}

\* the fields: by id, by name, by label, and by an id no element has
FillFields ==
    { [id |-> "a", name |-> "", label |-> "", value |-> "v"],
      [id |-> "", name |-> "n", label |-> "", value |-> "v"],
      [id |-> "", name |-> "", label |-> "L", value |-> "7"],
      [id |-> "z", name |-> "", label |-> "", value |-> "v"] }

InitFill ==
    /\ messages = <<>>
    /\ isLoading = FALSE
    /\ \E fs \in SeqsUpTo(FillFields, MaxFields) :
         pendingAction = [c \in Categories |->
             IF c = "form" THEN <<FormCommand(fs)>> ELSE <<>>]
    /\ uiSend = IdleSend
    /\ uiClears = {}
    /\ toAgent = <<>>
    /\ toWidget = <<>>
    /\ isWidgetOpen = TRUE
    /\ widgetFrame = 1
    /\ openCalls = <<OpenCall(0, 0, "done")>>
    /\ csRequests = <<>>
    /\ closeHandled = FALSE
    /\ body = TRUE
    /\ domFrames = {1}
    /\ domHandles = <<1>>
    /\ marginRight = "420px"
    /\ pageVersion = 0
    /\ context = <<0>>
    /\ ctxListeners = {}
    /\ ctxCalls = 1
    /\ pageLog = {}
    /\ pageSig = 0
    /\ lastUrl = 0
    /\ lastDomSignature = 0
    /\ domChangeTimer = FALSE
    /\ burst = NoBurst
    /\ page \in FillPages
    /\ toggles = <<>>
    /\ clickables = <<>>
    /\ requests = <<>>
    /\ chatHistory = EmptyStore
    /\ budget = [sends |-> 0, confirms |-> 0, pagePosts |-> 0, newChats |-> 0]

NextFill ==
    \/ ConfirmClick("form")
    \/ AgentOnFillForm
    \/ WidgetOnResult("form")

SpecFill == InitFill /\ [][NextFill]_vars

(***************************************************************************)
(* Background service worker: chrome.action.onClicked listener.            *)
(***************************************************************************)
MaxIconClicks == 2

\* let retries = 3
Retries == 3

\* One run of the listener. pc: the await it stands at (send, inject, wait,
\* resend, backoff) or done; i: the loop variable; sends, injects: the calls
\* of chrome.tabs.sendMessage and chrome.scripting.executeScript so far;
\* waited: the timeouts awaited, in ms; delivered: a sendMessage resolved;
\* error: what console.error printed.
Toggle(pc) ==
    [pc |-> pc, i |-> 0, sends |-> 0, injects |-> 0, waited |-> <<>>,
     delivered |-> FALSE, error |-> ""]

\* how executeScript settles: resolved, rejected with a message that holds
\* 'Cannot access' or 'chrome://', rejected with another message
InjectResults == {"ok", "refused", "failed"}

\* A catch block that goes round once more than the loop allows.
AfterFailedRoundOneMore(h) ==
    IF h.i < Retries
    THEN [h EXCEPT !.pc = "backoff"]
    ELSE [h EXCEPT !.pc = "done", !.error = "Failed to toggle chat after retries"]

\* The end of the inner catch block for another error: wait if a round is
\* left, else leave the loop and print the error.
AfterFailedRound(h) ==
    IF h.i < Retries - 1
    THEN [h EXCEPT !.pc = "backoff"]
    ELSE [h EXCEPT !.pc = "done", !.error = "Failed to toggle chat after retries"]

\* the user clicks the extension icon; if (!tab.id) return
IconClick ==
    /\ Len(toggles) < MaxIconClicks
    /\ \E hasId \in BOOLEAN :
         toggles' = Append(toggles, Toggle(IF hasId THEN "send" ELSE "done"))
    /\ UNCHANGED <<uiVars, chanVars, agentVars, domVars, ctxVars, pageVars,
                   elemVars, clickables, detVars, bgVars, budget>>

\* await chrome.tabs.sendMessage(tab.id, {type: 'TOGGLE_CHAT'}) at the top
\* of the loop settles
ToggleSend(k) ==
    /\ toggles[k].pc = "send"
    /\ \E ok \in BOOLEAN :
         toggles' = [toggles EXCEPT ![k] =
             IF ok THEN [@ EXCEPT !.sends = @ + 1, !.delivered = TRUE, !.pc = "done"]
             ELSE [@ EXCEPT !.sends = @ + 1, !.pc = "inject"]]
    /\ UNCHANGED <<uiVars, chanVars, agentVars, domVars, ctxVars, pageVars,
                   elemVars, clickables, detVars, bgVars, budget>>

\* await chrome.scripting.executeScript(...) settles
ToggleInject(k) ==
    /\ toggles[k].pc = "inject"
    /\ \E r \in InjectResults :
         toggles' = [toggles EXCEPT ![k] =
             CASE r = "ok" -> [@ EXCEPT !.injects = @ + 1, !.pc = "wait"]
               [] r = "refused" ->
                     [@ EXCEPT !.injects = @ + 1, !.pc = "done",
                               !.error = "Cannot inject script on this page"]
               [] OTHER -> AfterFailedRound([@ EXCEPT !.injects = @ + 1])]
    /\ UNCHANGED <<uiVars, chanVars, agentVars, domVars, ctxVars, pageVars,
                   elemVars, clickables, detVars, bgVars, budget>>

\* the 500 ms given to the injected script have passed
ToggleWait(k) ==
    /\ toggles[k].pc = "wait"
    /\ toggles' = [toggles EXCEPT ![k].waited = Append(@, 500), ![k].pc = "resend"]
    /\ UNCHANGED <<uiVars, chanVars, agentVars, domVars, ctxVars, pageVars,
                   elemVars, clickables, detVars, bgVars, budget>>

\* the sendMessage after the injection settles; its rejection is caught by
\* the inner catch
ToggleResend(k) ==
    /\ toggles[k].pc = "resend"
    /\ \E ok \in BOOLEAN :
         toggles' = [toggles EXCEPT ![k] =
             IF ok THEN [@ EXCEPT !.sends = @ + 1, !.delivered = TRUE, !.pc = "done"]
             ELSE AfterFailedRound([@ EXCEPT !.sends = @ + 1])]
    /\ UNCHANGED <<uiVars, chanVars, agentVars, domVars, ctxVars, pageVars,
                   elemVars, clickables, detVars, bgVars, budget>>

\* the 300 ms before the next round have passed; i++
ToggleBackoff(k) ==
    /\ toggles[k].pc = "backoff"
    /\ toggles' = [toggles EXCEPT ![k].waited = Append(@, 300), ![k].i = @ + 1,
                                  ![k].pc = "send"]
    /\ UNCHANGED <<uiVars, chanVars, agentVars, domVars, ctxVars, pageVars,
                   elemVars, clickables, detVars, bgVars, budget>>

NextToggle ==
    \/ IconClick
    \/ \E k \in DOMAIN toggles : ToggleSend(k)
    \/ \E k \in DOMAIN toggles : ToggleInject(k)
    \/ \E k \in DOMAIN toggles : ToggleWait(k)
    \/ \E k \in DOMAIN toggles : ToggleResend(k)
    \/ \E k \in DOMAIN toggles : ToggleBackoff(k)

\* Every promise the listener awaits settles and every timeout it sets
\* runs: a run that can take a step takes it.
SpecToggle ==
    /\ InitOpen
    /\ [][NextToggle]_vars
    /\ \A k \in 1..MaxIconClicks :
         WF_vars(k \in DOMAIN toggles /\
                 (ToggleSend(k) \/ ToggleInject(k) \/ ToggleWait(k)
                     \/ ToggleResend(k) \/ ToggleBackoff(k)))

(***************************************************************************)
(* extractContext: the list of clickable elements.                         *)
(***************************************************************************)
MaxButtons == 51

\* uniqueClickables.slice(0, 50)
ClickableLimit == 50

\* text.substring(0, 100): "long-a" and "long-b" stand for two texts of more
\* than 100 characters with the same first 100, "long" for these
Truncate(s) == IF s \in {"long-a", "long-b"} THEN "long" ELSE s

\* text.length < 50
ShortText(s) == s \notin {"long-a", "long-b", "long save"}

\* text.toLowerCase().match(/(submit|save|continue|next|proceed|confirm|apply)/)
ActionText(s) == s \in {"Save", "long save"}

\* style.display !== 'none' && style.visibility !== 'hidden' &&
\* style.opacity !== '0'
Perceivable(e) == e.visible /\ e.opacity # "0"

\* 'button, input[type="button"], input[type="submit"], input[type="reset"]'
ButtonLike(e) ==
    \/ e.tag = "button"
    \/ e.tag = "input" /\ e.type \in {"button", "submit", "reset"}

\* 'a[href]:not([href^="#"]):not([href^="javascript:"])'
ActionLink(e) == e.tag = "a" /\ e.href \notin {"", "#", "javascript:"}

\* an entry of the list (the documents here have no role attribute)
Entry(e) ==
    [id |-> e.id, name |-> IF e.tag = "a" THEN "" ELSE e.name, tagName |-> e.tag,
     text |-> Truncate(e.text), type |-> IF e.tag = "a" THEN "" ELSE e.type,
     href |-> IF e.tag = "a" THEN e.href ELSE ""]

\* the entries pushed by buttons.forEach, then by links.forEach (no link
\* here has the class button or btn)
Pushed(els) ==
    LET IsButton(e) == ButtonLike(e) /\ Perceivable(e) /\ e.text # ""
        IsLink(e) == /\ ActionLink(e)
                     /\ Perceivable(e)
                     /\ e.text # ""
                     /\ ActionText(e.text) \/ ShortText(e.text)
        found == SelectSeq(els, IsButton) \o SelectSeq(els, IsLink)
    IN [k \in DOMAIN found |-> Entry(found[k])]

SameClickable(a, b) == a.text = b.text /\ a.id = b.id /\ a.tagName = b.tagName

\* A filter that drops an entry only if the entry just before it is the same.
UniqueAdjacent(c) ==
    LET keep == {k \in DOMAIN c : k = 1 \/ ~SameClickable(c[k - 1], c[k])}
        Nth(n) == CHOOSE k \in keep : Cardinality({j \in keep : j < k}) = n - 1
    IN [n \in 1..Cardinality(keep) |-> c[Nth(n)]]

\* clickables.filter((clickable, index, self) => index === self.findIndex(...))
Unique(c) ==
    LET keep == {k \in DOMAIN c : \A j \in 1..(k - 1) : ~SameClickable(c[j], c[k])}
        Nth(n) == CHOOSE k \in keep : Cardinality({j \in keep : j < k}) = n - 1
    IN [n \in 1..Cardinality(keep) |-> c[Nth(n)]]

\* extractClickableElements()
ExtractClickableElements(els) ==
    LET u == Unique(Pushed(els))
    IN SubSeq(u, 1, IF Len(u) < ClickableLimit THEN Len(u) ELSE ClickableLimit)

\* extractContext runs extractClickableElements on the document
ExtractClickables ==
    /\ page.known
    /\ Len(clickables) < MaxExtracts
    /\ clickables' = Append(clickables, ExtractClickableElements(page.els))
    /\ UNCHANGED <<uiVars, chanVars, agentVars, domVars, ctxVars, pageVars,
                   elemVars, toggles, detVars, bgVars, budget>>

\* link: an element a with the href
Link(id, text, visible, href) ==
    [Element("a", "", id, "", text, "", "", visible, FALSE) EXCEPT !.href = href]

\* the elements a document starts with, before its numbered buttons
ExtractElements ==
    { Element("button", "submit", "", "", "1", "", "", TRUE, TRUE),
      Element("button", "submit", "x", "", "1", "", "", TRUE, TRUE),
      Element("button", "submit", "", "", "hid", "", "", FALSE, TRUE),
      [Element("button", "button", "", "", "dim", "", "", TRUE, FALSE)
          EXCEPT !.opacity = "0"],
      Element("input", "reset", "", "n", "1", "", "", TRUE, TRUE),
      Link("", "1", TRUE, "/p"),
      Link("", "long-a", TRUE, "/p"),
      Link("", "long save", TRUE, "/p"),
      Link("", "Save", TRUE, "#") }

\* n buttons with the texts "1" .. "n"
Buttons(n) ==
    [i \in 1..n |->
        Element("button", "button", "", "", ToString(i), "", "", TRUE, FALSE)]

ExtractPages ==
    { PageOf(pre \o Buttons(n)) :
         pre \in {<<>>} \cup SeqsUpTo(ExtractElements, MaxElements - 1),
         n \in {0} \cup ((MaxButtons - 2)..MaxButtons) }

InitExtract ==
    /\ messages = <<>>
    /\ isLoading = FALSE
    /\ pendingAction = [c \in Categories |-> <<>>]
    /\ uiSend = IdleSend
    /\ uiClears = {}
    /\ toAgent = <<>>
    /\ toWidget = <<>>
    /\ isWidgetOpen = TRUE
    /\ widgetFrame = 1
    /\ openCalls = <<OpenCall(0, 0, "done")>>
    /\ csRequests = <<>>
    /\ closeHandled = FALSE
    /\ body = TRUE
    /\ domFrames = {1}
    /\ domHandles = <<1>>
    /\ marginRight = "420px"
    /\ pageVersion = 0
    /\ context = <<0>>
    /\ ctxListeners = {}
    /\ ctxCalls = 1
    /\ pageLog = {}
    /\ pageSig = 0
    /\ lastUrl = 0
    /\ lastDomSignature = 0
    /\ domChangeTimer = FALSE
    /\ burst = NoBurst
    /\ page \in ExtractPages
    /\ toggles = <<>>
    /\ clickables = <<>>
    /\ requests = <<>>
    /\ chatHistory = EmptyStore
    /\ budget = [sends |-> 0, confirms |-> 0, pagePosts |-> 0, newChats |-> 0]

NextExtract == ExtractClickables

SpecExtract == InitExtract /\ [][NextExtract]_vars

(***************************************************************************)
(* Specification: two tabs write their chat histories.                     *)
(***************************************************************************)
MaxOtherTabRequests == 1

\* the widget of the other tab sends a chat message or its New Chat is
\* clicked: the request reaches the same service worker
OtherTabDeliver ==
    /\ Cardinality({i \in DOMAIN requests : requests[i].tab = OtherTab})
          < MaxOtherTabRequests
    /\ \E type \in {"SEND_MESSAGE", "CLEAR_CHAT_HISTORY"} :
         requests' = Append(requests, Request(type, OtherTab))
    /\ UNCHANGED <<chatHistory, uiVars, chanVars, agentVars, domVars, ctxVars,
                   pageVars, budget>>
    /\ UNCHANGED <<detVars, elemVars, sideVars>>

NextTabs ==
    \/ HandleSendStart(ChatInput)
    \/ HandleSendReply
    \/ HandleSendLoaded
    \/ OtherTabDeliver
    \/ \E i \in DOMAIN requests : BgHandle(i)
    \/ \E i \in DOMAIN requests : BgGenerate(i)
    \/ \E i \in DOMAIN requests : BgSaveGet(i)
    \/ \E i \in DOMAIN requests : BgSaveSet(i)

SpecTabs == InitOpen /\ [][NextTabs]_vars

\* C21: no message of the persisted history holds the prefix of an action
\* marker: the assistant reply is saved with its markers stripped.
C21_NoMarkerPersisted ==
    \A t \in TabIds : \A k \in DOMAIN chatHistory[t] :
       \A j \in DOMAIN chatHistory[t][k].content :
          chatHistory[t][k].content[j].t # "open"

\* C22: no assistant message of the widget's message list matches a
\* dangerous pattern: a reply that did is shown in its escaped form, also
\* once the list has been replaced by the session history.
C22_DangerousShownEscaped ==
    \A i \in DOMAIN messages :
       messages[i].role = "assistant" => ~Dangerous(messages[i].content)

\* the step of the content script that runs the executor function of
\* category c on a known document
ExecutorStep(c) ==
    /\ page.known
    /\ toAgent # <<>>
    /\ Head(toAgent).type = ReqType(c)
    /\ c = "highlight" \/ Truthy(Head(toAgent).confirm)
    /\ toAgent' = Tail(toAgent)

\* the element the priority id > name > text asks for, 0 if there is none;
\* the text stage is the one of the function that serves category c
Wanted(c, els, t) ==
    LET ids == {i \in DOMAIN els : t.id # "" /\ els[i].id = t.id}
        names == {i \in DOMAIN els : t.name # "" /\ els[i].name = t.name}
    IN IF ids # {} THEN Least(ids)
       ELSE IF names # {} THEN Least(names)
       ELSE IF t.text = "" THEN 0
       ELSE IF c = "click" THEN ClickableByText(els, t.text)
       ELSE FindByText(els, t.text)

\* C23: a click or highlight request acts on the element that matches the
\* target's id if there is one, else on the one that matches its name, else
\* on a text match; with none it reports failure, and a click whose element
\* is hidden reports that it is not visible.
C23_IdThenNameThenText ==
    [][\A c \in {"click", "highlight"} :
         ExecutorStep(c) =>
           LET want == Wanted(c, page.els, Head(toAgent).target)
               result == toWidget'[Len(toWidget')]
               timer == page'.timers[Len(page'.timers)]
           IN /\ Len(toWidget') = Len(toWidget) + 1
              /\ IF want = 0
                 THEN ~result.success /\ page'.timers = page.timers
                 ELSE IF c = "click" /\ ~page.els[want].visible
                 THEN /\ ~result.success
                      /\ result.error = "not visible"
                      /\ page'.timers = page.timers
                 ELSE /\ result.success
                      /\ Len(page'.timers) = Len(page.timers) + 1
                      /\ timer.kind = c
                      /\ timer.el = want]_vars

\* a click on a target with id, name and text was run on a document where
\* one element has the id and another, before it, the name and the text
C23_Witness ==
    /\ page.known
    /\ \E x \in pageLog :
         /\ x.category = "click"
         /\ x.ok
         /\ x.target = [id |-> "a", name |-> "n", text |-> "b"]
    /\ \E i, j \in DOMAIN page.els :
         /\ j < i
         /\ page.els[i].id = "a"
         /\ page.els[j].id # "a"
         /\ page.els[j].name = "n"
         /\ TextMatches(page.els[j].text, "b")
         /\ \E k \in DOMAIN page.timers :
              page.timers[k].kind = "click" /\ page.timers[k].el = i

\* can fillFormFields find an element for the field and write the value
\* into it?
Fillable(els, f) ==
    /\ ResolveField(els, f) # 0
    /\ Control(els[ResolveField(els, f)])
    /\ ~CountsFailed(els[ResolveField(els, f)], f)

\* C24: a confirmed FILL_FORM goes through every field: the result counts
\* as failed the fields that cannot be resolved or written and as filled
\* all the others, and its success is filled > 0.
C24_EveryFieldTallied ==
    [][ExecutorStep("form") =>
         LET fields == Head(toAgent).fields
             result == toWidget'[Len(toWidget')]
             good == {k \in DOMAIN fields : Fillable(page.els, fields[k])}
         IN /\ result.type = "FILL_FORM_RESULT"
            /\ result.filled = Cardinality(good)
            /\ result.failed = Len(fields) - Cardinality(good)
            /\ result.success = (result.filled > 0)]_vars

\* C25: once no highlight timer is pending, every element has the inline
\* style the document gave it, whatever number of highlights ran on it and
\* however their windows overlapped.
C25_HighlightLeavesNoStyle ==
    page.known =>
       \A i \in DOMAIN page.els :
          (\A k \in DOMAIN page.timers :
              ~(page.timers[k].kind = "highlight" /\ page.timers[k].el = i))
             => page.style[i] = NoStyle

\* C26: a confirmed click whose target matches no element, or whose element
\* is hidden, posts one CLICK_RESULT with success false and the reason,
\* sets no timer and dispatches no event, and puts no request back; mouse
\* and submit events are dispatched on displayed elements only, and
\* clickElement runs once per press of Confirm.
C26_FailedClickDoesNothing ==
    /\ [][ExecutorStep("click") =>
            LET want == Wanted("click", page.els, Head(toAgent).target)
                result == toWidget'[Len(toWidget')]
            IN (want = 0 \/ ~page.els[want].visible) =>
                 /\ Len(toWidget') = Len(toWidget) + 1
                 /\ result.type = "CLICK_RESULT"
                 /\ ~result.success
                 /\ result.error = IF want = 0 THEN "not found" ELSE "not visible"
                 /\ page'.events = page.events
                 /\ page'.timers = page.timers
                 /\ page'.calls = page.calls + 1]_vars
    /\ [](page.known =>
            /\ \A k \in DOMAIN page.events : page.els[page.events[k].el].visible
            /\ page.calls + Len(toAgent) = budget.confirms)

\* a click on a hidden button was refused, nothing was dispatched, and the
\* widget has processed the result
C26_Witness ==
    /\ page.known
    /\ \E x \in pageLog :
         /\ x.category = "click"
         /\ ~x.ok
         /\ Wanted("click", page.els, x.target) # 0
         /\ ~page.els[Wanted("click", page.els, x.target)].visible
    /\ \E i \in DOMAIN page.els : Clickable(page.els[i]) /\ page.els[i].visible
    /\ page.events = <<>>
    /\ page.timers = <<>>
    /\ toAgent = <<>>
    /\ toWidget = <<>>
    /\ pendingAction["click"] = <<>>
    /\ \E k \in DOMAIN messages : messages[k].content = PlainContent("click failed")

\* the number of timeouts of ms milliseconds a run has awaited
Waits(h, ms) == Cardinality({j \in DOMAIN h.waited : h.waited[j] = ms})

C28_ClickablesUniqueAndCapped ==
    \A k \in DOMAIN clickables :
       /\ Len(clickables[k]) <= 50
       /\ \A i, j \in DOMAIN clickables[k] :
             i # j => ~(/\ clickables[k][i].text = clickables[k][j].text
                        /\ clickables[k][i].id = clickables[k][j].id
                        /\ clickables[k][i].tagName = clickables[k][j].tagName)

\* a list of 50 entries was extracted from a document with more than 50
\* displayed buttons, two of them with the same text, id and tag but apart
C28_Witness ==
    /\ page.known
    /\ clickables # <<>>
    /\ Len(clickables[Len(clickables)]) = 50
    /\ Cardinality({i \in DOMAIN page.els :
                      ButtonLike(page.els[i]) /\ Perceivable(page.els[i])}) > 50
    /\ \E i, j \in DOMAIN page.els :
          /\ i + 1 < j
          /\ j <= 50
          /\ SameClickable(Entry(page.els[i]), Entry(page.els[j]))
          /\ ButtonLike(page.els[i]) /\ Perceivable(page.els[i])
          /\ ButtonLike(page.els[j]) /\ Perceivable(page.els[j])

\* C29: the write that ends a saveChatHistory for one tab, a save or a
\* clear, leaves the persisted history of every other tab as it was.
C29_TabsIsolated ==
    [][\A i \in DOMAIN requests :
          (requests[i].pc = "saveSet" /\ requests'[i].pc = "done") =>
             \A t \in TabIds \ {requests[i].tab} :
                chatHistory'[t] = chatHistory[t]]_vars

\* was the command run against the page for a request of category c?
Executed(c, cmd) ==
    \E x \in pageLog :
       x.category = c /\ x.fields = cmd.fields /\ x.target = cmd.target

\* C30: when the widget processes the result message of category c while the
\* slot holds a command that was not executed (it replaced the confirmed
\* one), that command is still pending afterwards.
C30_ResultKeepsNewerCommand ==
    [][\A c \in Categories :
          (/\ toWidget # <<>>
           /\ Head(toWidget).type = ResType(c)
           /\ toWidget' = Tail(toWidget)
           /\ pendingAction[c] # <<>>
           /\ ~Executed(c, pendingAction[c][1]))
             => pendingAction'[c] = pendingAction[c]]_vars

\* has a CLEAR_CHAT_HISTORY request of the tab been answered?
ClearAnswered(t) ==
    \E j \in DOMAIN requests :
       /\ requests[j].type = "CLEAR_CHAT_HISTORY"
       /\ requests[j].tab = t
       /\ requests[j].pc = "done"

\* the sequence a begins the sequence b
Begins(a, b) == Len(a) <= Len(b) /\ SubSeq(b, 1, Len(a)) = a

\* C31: once a clear of the session has been answered, the save of an
\* exchange puts no message back: what it writes before the new exchange
\* is still in the persisted history when it writes.
C31_ClearIsFinal ==
    [][\A i \in DOMAIN requests :
          (SaveStep(i) /\ ClearAnswered(requests[i].tab)) =>
             Begins(SubSeq(chatHistory'[requests[i].tab], 1,
                           Len(chatHistory'[requests[i].tab]) - 2),
                    chatHistory[requests[i].tab])]_vars

\* C32: a reply that sets the widget's context does not become its final
\* context while a later extraction request is outstanding: the listeners
\* of the later requests stay registered, so that their replies replace it.
C32_LaterReplyStillAccepted ==
    [][(/\ toWidget # <<>>
        /\ Head(toWidget).type = "CONTEXT_EXTRACTED"
        /\ toWidget' = Tail(toWidget)
        /\ Head(toWidget).call \in ctxListeners)
          => \A id \in ctxListeners :
                id > Head(toWidget).call => id \in ctxListeners']_vars

\* a control that submits its form: <button type="submit"> (the default
\* type of a button) or <input type="submit">
SubmitType(e) == e.tag \in {"button", "input"} /\ e.type = "submit"

\* C33: a submit event is dispatched only for a clicked element that is a
\* submit-type control inside a form: every submit event of the page belongs
\* to such an element.
C33_SubmitOnlyForSubmitControls ==
    page.known =>
       \A i \in DOMAIN page.events :
          page.events[i].type = "submit" =>
             /\ SubmitType(page.els[page.events[i].el])
             /\ page.els[page.events[i].el].inForm

\* C34: a confirmed click resolves its target as a highlight of the same
\* target does on the same document: it reports not found exactly when
\* findElementForTarget finds nothing, and the element it clicks is the one
\* findElementForTarget returns.
C34_ClickResolvesAsHighlight ==
    [][ExecutorStep("click") =>
         LET found == FindElementForTarget(page.els, Head(toAgent).target)
             result == toWidget'[Len(toWidget')]
         IN /\ (~result.success /\ result.error = "not found") <=> (found = 0)
            /\ result.success =>
                  page'.timers[Len(page'.timers)].el = found]_vars

\* the reply of the session's SEND_MESSAGE, once the connector has answered
DangerousReplyAnswered ==
    /\ requests # <<>>
    /\ requests[1].type = "SEND_MESSAGE"
    /\ requests[1].pc = "done"
    /\ requests[1].answers[1].kind = "content"
    /\ Dangerous(requests[1].answers[1].reply)

\* C35: a reply that containsDangerousCode is escaped before the marker
\* blocks run, so no command of it is ever stored: with such a reply no
\* category holds a pending command.
C35_DangerousReplyStoresNothing ==
    DangerousReplyAnswered => pendingAction = NoPending

\* handleSend has worked on a dangerous reply that carries a well-formed
\* form-fill marker and a click marker
C35_Witness ==
    /\ DangerousReplyAnswered
    /\ uiSend.pc # "awaitReply"
    /\ Len(messages) >= 2
    /\ FormMarkersOf(requests[1].answers[1].reply) # {}
    /\ OpenersOf("click", requests[1].answers[1].reply) # {}

\* the New Chat handler goes on after the answer to its CLEAR_CHAT_HISTORY
NewChatStep == \E i \in uiClears : uiClears' = uiClears \ {i}

\* C36: when New Chat has cleared the conversation, no command awaits
\* confirmation: the form, click and highlight slots are all empty.
C36_NewChatLeavesNothingPending ==
    [][NewChatStep => \A c \in Categories : pendingAction'[c] = <<>>]_vars

\* the run of the SEND_MESSAGE request i ends in this step without a reply:
\* the connector is not available, or its sendMessage has thrown
FailStep(i) ==
    /\ requests[i].type = "SEND_MESSAGE"
    /\ requests[i].pc \in {"delivered", "generating"}
    /\ requests'[i].pc = "done"

\* C37: a SEND_MESSAGE whose provider is not available or whose generation
\* fails is answered with {error}, once, and leaves the persisted history
\* as it was: neither the user's message nor a reply is saved.
C37_FailureSavesNothing ==
    [][\A i \in DOMAIN requests :
          FailStep(i) => /\ requests'[i].answers = <<ErrorAnswer>>
                         /\ chatHistory' = chatHistory]_vars

\* after a saved exchange, a later SEND_MESSAGE of the session was answered
\* with {error}
C37_Witness ==
    \E i \in DOMAIN requests :
       /\ requests[i].type = "SEND_MESSAGE"
       /\ requests[i].tab = WidgetTab
       /\ requests[i].pc = "done"
       /\ requests[i].answers[1].kind = "error"
       /\ Len(chatHistory[WidgetTab]) = 2

\* C38: every field of a FILL_FORM command is counted once: the two counts
\* of the result add up to the number of fields.
C38_CountsAddUp ==
    [][ExecutorStep("form") =>
         LET result == toWidget'[Len(toWidget')]
         IN result.filled + result.failed = Len(Head(toAgent).fields)]_vars

\* the difference between the page's signature and the baseline
Drift == Abs(pageSig - lastDomSignature)

\* C39: the signature baseline moves only in a step that emits a staleness
\* signal, the timer's for a content change or the observer's for a URL
\* change; a comparison below the threshold leaves it where it was, and a
\* comparison that finds the accumulated difference at 200 or more emits
\* one signal: once no timer is pending, no difference of 200 or more is
\* left unsignalled.
C39_BaselineMovesWithSignalOnly ==
    /\ [](~domChangeTimer => Drift < THRESHOLD)
    /\ [][ /\ lastDomSignature' # lastDomSignature
              => Emitted >= 1 /\ (TimerStep \/ lastUrl' # lastUrl)
           /\ (TimerStep /\ Drift < THRESHOLD)
              => lastDomSignature' = lastDomSignature /\ Emitted = 0
           /\ (TimerStep /\ Drift >= THRESHOLD)
              => lastDomSignature' = pageSig /\ Emitted = 1
         ]_vars

\* a first burst ended with a comparison that emitted nothing and left the
\* baseline at 0; the one mutation of the second burst brought the
\* difference from that baseline to 200 and its comparison emitted the only
\* signal
C39_Witness ==
    /\ pageVersion = 0
    /\ burst.total = 2
    /\ burst.mutations = 1
    /\ burst.signals = 1
    /\ Len(toWidget) = 1
    /\ pageSig = 200
    /\ lastDomSignature = 200
    /\ ~domChangeTimer

(***************************************************************************)
(* Sending under fair scheduling: the service worker runs every handler   *)
(* to its end, the connector returns or throws, and the widget's awaits    *)
(* resume when their response is there.                                    *)
(***************************************************************************)
\* the requests of a run of NextHistory: two per send, one per New Chat
MaxRequests == 2 * MaxSends + MaxNewChats

\* handleSend resumes from `await chrome.runtime.sendMessage`: the step
\* HandleSendReply, told by what it does to uiSend; it can be taken as soon
\* as the response of the awaited request is there.
ReplyResumes ==
    /\ uiSend.pc = "awaitReply"
    /\ requests[uiSend.rid].pc = "done"
    /\ uiSend' \in {IdleSend, [pc |-> "awaitHistory", rid |-> Len(requests) + 1]}

SpecSend ==
    /\ InitOpen
    /\ [][NextHistory]_vars
    /\ WF_uiSend(ReplyResumes)
    /\ WF_vars(HandleSendLoaded)
    /\ \A i \in 1..MaxRequests :
         WF_vars(BgHandle(i) \/ BgGenerate(i) \/ BgSaveGet(i) \/ BgSaveSet(i))

\* the SEND_MESSAGE requests of the widget that have no response yet
OutstandingSends ==
    {i \in DOMAIN requests :
        /\ requests[i].type = "SEND_MESSAGE"
        /\ requests[i].tab = WidgetTab
        /\ requests[i].pc # "done"}

\* C40: the widget never has two SEND_MESSAGE requests without a response,
\* the loading state that follows a send always ends, with the reply or
\* with the error, and whenever it is off a message can be sent.
C40_OneSendOutstanding ==
    /\ [](Cardinality(OutstandingSends) <= 1)
    /\ [](OutstandingSends # {} => isLoading)
    /\ (isLoading ~> ~isLoading)
    /\ []((~isLoading /\ budget.sends < MaxSends) => CanSend)

\* a second SEND_MESSAGE is awaiting its reply after the first was answered
\* with an error
C40_Witness ==
    /\ Len(requests) >= 2
    /\ requests[1].type = "SEND_MESSAGE"
    /\ requests[1].pc = "done"
    /\ requests[1].answers[1].kind = "error"
    /\ \E i \in OutstandingSends : i > 1
    /\ isLoading

====
